---------------------------- MODULE Spec2Model ----------------------------
(***************************************************************************)
(* Model of ngx_brotli: the Accept-Encoding negotiation                    *)
(* (check_accept_encoding), the static handler that serves a .br sibling   *)
(* (handler), the header filter that decides on compression                *)
(* (ngx_http_brotli_header_filter), the streaming compression body filter  *)
(* (ngx_http_brotli_body_filter) with its session object                   *)
(* ngx_http_brotli_ctx_t, the $brotli_ratio variable, and the post handler *)
(* of the brotli_window directive (ngx_http_brotli_parse_wbits).           *)
(*                                                                         *)
(* Header values are sequences of byte codes (ASCII), followed by the NUL  *)
(* terminator nginx keeps after every header value.  The brotli encoder,   *)
(* the nginx core calls and the next filters are the environment: they are *)
(* modelled by every outcome their interface allows.                       *)
(***************************************************************************)
EXTENDS Integers, Sequences, FiniteSets, TLC

VARIABLES
  accept_encoding,  \* req->headers_in.accept_encoding: entry present?, value
  ae_rc,            \* result of the last check_accept_encoding call
  input,            \* the whole chunk sequence the upstream producer will send
  todo,             \* chunks the producer has not passed to the filter yet
  ctx,              \* ngx_http_brotli_ctx_t
  buf,              \* the ngx_buf_t that ctx->out_buf points to
  buffered,         \* r->connection->buffered & NGX_HTTP_BROTLI_BUFFERED
  pc,               \* "idle": no invocation running; "loop": top of for (;;)
  ret,              \* value returned by the last body filter invocation
  cons_held,        \* the consumer still references the handed out_buf
  hist,             \* history: what the encoder and the consumer have seen
  r,                \* ngx_http_request_t: the fields the module reads or writes
  conf,             \* the location configuration of both modules
  file,             \* the sibling file, as ngx_open_cached_file reports it
  resp              \* what the static handler, header filter or variable did

vars == <<accept_encoding, ae_rc, input, todo, ctx, buf, buffered, pc, ret,
          cons_held, hist, r, conf, file, resp>>

NULL == "NULL"
NGX_OK == "NGX_OK"
NGX_AGAIN == "NGX_AGAIN"
NGX_ERROR == "NGX_ERROR"
NGX_DECLINED == "NGX_DECLINED"

(***************************************************************************)
(* Bounds.                                                                 *)
(***************************************************************************)
\* longest fraction generated after "q=0."
MaxFrac == 4
\* number of input chunks of a response body
MaxChunks == 2
\* largest input chunk, in bytes
MaxChunkSize == 1
\* most bytes the encoder emits for one stream
MaxOutTotal == 2
\* most explicit close calls made from outside the body filter
MaxCloseCalls == 2

(***************************************************************************)
(* Bytes.                                                                  *)
(***************************************************************************)
Ascii ==
  [NUL |-> 0, SP |-> 32, COMMA |-> 44, MINUS |-> 45, DOT |-> 46,
   SLASH |-> 47, D0 |-> 48, D1 |-> 49, D5 |-> 53, D9 |-> 57, SEMI |-> 59,
   EQ |-> 61, UB |-> 66, UQ |-> 81, UR |-> 82, a |-> 97, b |-> 98, c |-> 99,
   g |-> 103, i |-> 105, p |-> 112, q |-> 113, r |-> 114, s |-> 115,
   x |-> 120, z |-> 122]

\* the byte at 1-based index k of a NUL-terminated string s
At(s, k) == IF k <= Len(s) THEN s[k] ELSE Ascii.NUL

\* (c >= 'A' && c <= 'Z') ? (c | 0x20) : c
ToLower(c) == IF c >= 65 /\ c <= 90 THEN c + 32 ELSE c

kEncoding == <<Ascii.b, Ascii.r>>
kEncodingLen == 2

(***************************************************************************)
(* nginx string search, as called by check_accept_encoding.                *)
(* ngx_strcasestrn(s1, s2, n) searches the NUL-terminated s1 for s2; it    *)
(* compares the first byte of s2 itself and hands the rest of s2 together  *)
(* with n to ngx_strncasecmp, which compares at most n bytes and stops at  *)
(* a NUL common to both strings.  nginx documents n as "length of the      *)
(* second substring - 1".  0 stands for the NULL result.                   *)
(***************************************************************************)
RECURSIVE ngx_strncasecmp(_, _, _, _, _)
ngx_strncasecmp(s1, k1, s2, k2, n) ==
  IF n = 0 THEN 0
  ELSE LET c1 == ToLower(At(s1, k1))
           c2 == ToLower(At(s2, k2))
       IN IF c1 = c2
          THEN IF c1 # 0 THEN ngx_strncasecmp(s1, k1 + 1, s2, k2 + 1, n - 1)
                         ELSE 0
          ELSE c1 - c2

RECURSIVE ngx_strcasestrn(_, _, _, _)
ngx_strcasestrn(s1, k, s2, n) ==
  LET c2 == ToLower(At(s2, 1))
      c1 == At(s1, k)
  IN IF c1 = 0 THEN 0
     ELSE IF ToLower(c1) = c2 /\ ngx_strncasecmp(s1, k + 1, s2, 2, n) = 0
          THEN k
          ELSE ngx_strcasestrn(s1, k + 1, s2, n)

\* the search step of the scan loop: ngx_strcasestrn(cursor, kEncoding, kEncodingLen)
SearchEncoding(h, cursor) == ngx_strcasestrn(h, cursor, kEncoding, kEncodingLen)

(***************************************************************************)
(* check_accept_encoding.  cursor and end are 1-based indexes;             *)
(* end = Len(h) + 1 is the index one past the last byte.                   *)
(***************************************************************************)
LeftBoundaryMut(before) == TRUE

\* if (before != ',' && before != ' ') continue;
LeftBoundary(before) == before = Ascii.COMMA \/ before = Ascii.SP

\* if (after != ',' && after != ' ' && after != ';') continue;
RightBoundary(after) ==
  after = Ascii.COMMA \/ after = Ascii.SP \/ after = Ascii.SEMI

RECURSIVE SkipSpaces(_, _)
SkipSpaces(h, cursor) ==
  IF cursor < Len(h) + 1 /\ h[cursor] = Ascii.SP
  THEN SkipSpaces(h, cursor + 1)
  ELSE cursor

IsDigit(c) == c >= Ascii.D0 /\ c <= Ascii.D9

\* the q-value part of the scan loop, entered with cursor just after the token
QValue(h, cursor) ==
  LET end == Len(h) + 1
      c1 == SkipSpaces(h, cursor)
      c2 == SkipSpaces(h, c1 + 1)
      c3 == SkipSpaces(h, c2 + 1)
      c4 == SkipSpaces(h, c3 + 1)
      c5 == c4 + 1
      c6 == c5 + 1
      c7 == c6 + 1
      c8 == c7 + 1
  IN IF c1 = end \/ h[c1] # Ascii.SEMI THEN NGX_OK
     ELSE IF c2 = end \/ (h[c2] # Ascii.q /\ h[c2] # Ascii.UQ) THEN NGX_OK
     ELSE IF c3 = end \/ h[c3] # Ascii.EQ THEN NGX_OK
     ELSE IF c4 = end \/ h[c4] # Ascii.D0 THEN NGX_OK
     ELSE IF c5 < end /\ h[c5] = Ascii.DOT
          THEN IF c6 = end \/ h[c6] < Ascii.D0 \/ h[c6] > Ascii.D9
               THEN NGX_DECLINED
               ELSE IF h[c6] > Ascii.D0 THEN NGX_OK
               ELSE IF c7 < end /\ IsDigit(h[c7])
                    THEN IF h[c7] > Ascii.D0 THEN NGX_OK
                         ELSE IF c8 < end /\ IsDigit(h[c8])
                              THEN IF h[c8] > Ascii.D0 THEN NGX_OK
                                                       ELSE NGX_DECLINED
                              ELSE NGX_DECLINED
                    ELSE NGX_DECLINED
          ELSE NGX_DECLINED

\* one pass of while (1), entered with the cursor where the search resumes
RECURSIVE ScanFrom(_, _)
ScanFrom(h, cursor0) ==
  LET end == Len(h) + 1
      found == SearchEncoding(h, cursor0)
      before == IF found = 1 THEN Ascii.SP ELSE h[found - 1]
      cursor == found + kEncodingLen
      after == IF cursor >= end THEN Ascii.SP ELSE h[cursor]
  IN IF found = 0 THEN NGX_DECLINED
     ELSE IF ~LeftBoundary(before) THEN ScanFrom(h, cursor)
     ELSE IF ~RightBoundary(after) THEN ScanFrom(h, cursor)
     ELSE QValue(h, cursor)

\* accept_encoding_entry: [present |-> entry != NULL, value |-> the value bytes]
check_accept_encoding(accept_encoding_entry) ==
  IF ~accept_encoding_entry.present THEN NGX_DECLINED
  ELSE IF Len(accept_encoding_entry.value) < kEncodingLen THEN NGX_DECLINED
  ELSE ScanFrom(accept_encoding_entry.value, 1)

(***************************************************************************)
(* The Accept-Encoding values the negotiation is checked on: an element    *)
(* name with a parameter tail, optionally between another element before   *)
(* and after it.                                                           *)
(***************************************************************************)
Str_gzip == <<Ascii.g, Ascii.z, Ascii.i, Ascii.p>>
Str_q0 == <<Ascii.SEMI, Ascii.q, Ascii.EQ, Ascii.D0>>

Names ==
  { kEncoding,
    <<Ascii.UB, Ascii.r>>,
    Str_gzip,
    <<Ascii.b, Ascii.r, Ascii.x>>,
    <<Ascii.x, Ascii.MINUS, Ascii.b, Ascii.r>> }

FracDigits == {Ascii.D0, Ascii.D1, Ascii.D5}

Fractions == UNION { [1..n -> FracDigits] : n \in 1..MaxFrac }

Tails ==
  { <<>>,
    <<Ascii.SEMI>>,
    <<Ascii.SEMI, Ascii.SP>>,
    <<Ascii.SEMI, Ascii.x>>,
    <<Ascii.SEMI, Ascii.q>>,
    <<Ascii.SEMI, Ascii.q, Ascii.SP>>,
    <<Ascii.SEMI, Ascii.q, Ascii.x>>,
    <<Ascii.SEMI, Ascii.q, Ascii.EQ>>,
    <<Ascii.SEMI, Ascii.q, Ascii.EQ, Ascii.SP>>,
    <<Ascii.SEMI, Ascii.q, Ascii.EQ, Ascii.x>>,
    <<Ascii.SEMI, Ascii.q, Ascii.EQ, Ascii.D1>>,
    <<Ascii.SEMI, Ascii.UQ, Ascii.EQ, Ascii.D1>>,
    <<Ascii.SEMI, Ascii.q, Ascii.EQ, Ascii.D5>>,
    Str_q0,
    <<Ascii.SEMI, Ascii.UQ, Ascii.EQ, Ascii.D0>>,
    <<Ascii.SP, Ascii.SEMI, Ascii.SP, Ascii.q, Ascii.SP, Ascii.EQ, Ascii.SP,
      Ascii.D0>>,
    Str_q0 \o <<Ascii.x>>,
    Str_q0 \o <<Ascii.DOT>>,
    Str_q0 \o <<Ascii.DOT, Ascii.x>> }
  \cup { Str_q0 \o <<Ascii.DOT>> \o f : f \in Fractions }

Prefixes ==
  { <<>>,
    Str_gzip \o <<Ascii.COMMA, Ascii.SP>>,
    Str_gzip \o <<Ascii.COMMA>>,
    Str_gzip \o Str_q0 \o <<Ascii.COMMA, Ascii.SP>>,
    <<Ascii.x, Ascii.MINUS, Ascii.b, Ascii.r, Ascii.COMMA, Ascii.SP>>,
    <<Ascii.b, Ascii.r, Ascii.x, Ascii.COMMA, Ascii.SP>>,
    kEncoding \o Str_q0 \o <<Ascii.COMMA, Ascii.SP>> }

Suffixes ==
  { <<>>,
    <<Ascii.COMMA, Ascii.SP>> \o Str_gzip,
    <<Ascii.COMMA>> \o Str_gzip,
    <<Ascii.COMMA, Ascii.SP>> \o kEncoding,
    <<Ascii.SP>> }

HeaderValues ==
  { <<>>, <<Ascii.b>>, <<Ascii.r>> }
  \cup { pre \o n \o t \o suf :
           pre \in Prefixes, n \in Names, t \in Tails, suf \in Suffixes }

NoHeader == [present |-> FALSE, value |-> <<>>]

Header(v) == [present |-> TRUE, value |-> v]

Headers == {NoHeader} \cup { Header(v) : v \in HeaderValues }

(***************************************************************************)
(* The request, the configuration and the sibling file, as the static      *)
(* handler and the header filter see them.  HTTP status codes and errno    *)
(* values are kept by name.                                                *)
(***************************************************************************)
NGX_HTTP_BROTLI_STATIC_OFF == 0
NGX_HTTP_BROTLI_STATIC_ON == 1
NGX_HTTP_BROTLI_STATIC_ALWAYS == 2

kSuffix == <<Ascii.DOT, Ascii.b, Ascii.r>>

\* largest sibling file, in bytes
MaxFileSize == 20

\* default of brotli_min_length
DefaultMinLength == 20

\* window bits of the encoder: the least, the greatest and the default
BROTLI_MIN_WINDOW_BITS == 10
BROTLI_MAX_WINDOW_BITS == 24
BROTLI_DEFAULT_WINDOW == 22

NGX_CONF_OK == "NGX_CONF_OK"

Uri_css == <<Ascii.SLASH, Ascii.a, Ascii.DOT, Ascii.c, Ascii.s, Ascii.s>>
Uri_dir == <<Ascii.SLASH, Ascii.a, Ascii.SLASH>>

\* r->exten: the bytes after the last '.' of the last path segment
Exten(name) ==
  LET dots == { k \in 1..Len(name) :
                  /\ name[k] = Ascii.DOT
                  /\ \A m \in (k + 1)..Len(name) :
                       name[m] # Ascii.DOT /\ name[m] # Ascii.SLASH }
  IN IF dots = {} THEN <<>>
     ELSE SubSeq(name, (CHOOSE k \in dots : TRUE) + 1, Len(name))

\* the types hash of the core module, with its default_type
TypeOf(exten) ==
  IF exten = <<Ascii.c, Ascii.s, Ascii.s>> THEN "text/css"
  ELSE "application/octet-stream"

HeadersOut0 ==
  [status |-> "NONE",
   content_length_n |-> -1,
   content_length |-> FALSE,
   last_modified_time |-> -1,
   etag |-> "none",
   content_type |-> "",
   content_encoding |-> NoHeader,
   accept_ranges |-> FALSE]

Request0 ==
  [method |-> "GET",
   uri |-> Uri_css,
   main |-> TRUE,
   header_only |-> FALSE,
   error_page |-> FALSE,
   root_tested |-> FALSE,
   gzip_tested |-> FALSE,
   gzip_ok |-> FALSE,
   gzip_vary |-> FALSE,
   allow_ranges |-> FALSE,
   main_filter_need_in_memory |-> FALSE,
   has_ctx |-> FALSE,
   headers_out |-> HeadersOut0]

\* cfg: configuration_t of the static module; filter: ngx_http_brotli_conf_t;
\* etag: the core module's etag switch; have_openat: NGX_HAVE_OPENAT
Conf0 ==
  [cfg |-> [enable |-> NGX_HTTP_BROTLI_STATIC_OFF],
   filter |-> [enable |-> FALSE,
               min_length |-> DefaultMinLength,
               lg_win |-> BROTLI_DEFAULT_WINDOW,
               types |-> {"text/html", "text/css"}],
   etag |-> TRUE,
   have_openat |-> TRUE]

\* ngx_open_file_info_t after ngx_open_cached_file, with its return value
File0 ==
  [rc |-> NGX_ERROR, err |-> "NGX_ENOENT", is_dir |-> FALSE, is_file |-> FALSE,
   size |-> 0, mtime |-> 0]

NotFoundErrors == {"NGX_ENOENT", "NGX_ENOTDIR", "NGX_ENAMETOOLONG"}

SymlinkErrors == {"NGX_EMLINK", "NGX_ELOOP"}

OpenErrors ==
  {"0", "NGX_EACCES", "NGX_EIO"} \cup NotFoundErrors \cup SymlinkErrors

Files ==
  { [File0 EXCEPT !.err = e] : e \in OpenErrors }
  \cup { [File0 EXCEPT !.rc = NGX_OK, !.err = "0", !.is_dir = TRUE] }
  \cup { [File0 EXCEPT !.rc = NGX_OK, !.err = "0"] }
  \cup { [File0 EXCEPT !.rc = NGX_OK, !.err = "0", !.is_file = TRUE,
                       !.size = n, !.mtime = 1] : n \in {0, MaxFileSize} }

\* ngx_http_variable_value_t
Value0 == [valid |-> FALSE, no_cacheable |-> FALSE, not_found |-> FALSE,
           data |-> <<>>]

\* what a call has done: its return value, the ngx_log_error levels, the call
\* that failed, the part of the handler that returned, whether the header
\* went to the next header filter,
\* the chain given to the next body filter, the result of the eligibility
\* check, whether a session was created, and the variable value
Resp0 ==
  [phase |-> "none", rc |-> "NONE", log |-> <<>>, fail |-> "none",
   stage |-> "none", sent |-> FALSE, out |-> <<>>, passed |-> FALSE,
   check |-> [rc |-> "NONE", ae_rc |-> "NONE"], created |-> FALSE,
   v |-> Value0]

(***************************************************************************)
(* The eligibility check of both modules.  The result carries the request  *)
(* as the call leaves it, the return value, and the result of the          *)
(* check_accept_encoding call it made ("NONE": not called).                *)
(***************************************************************************)
NoCheck == [rc |-> "NONE", ae_rc |-> "NONE"]

\* F applied to the value of v, which is computed once
Bind(v, F(_)) == CHOOSE y \in { F(x) : x \in {v} } : TRUE

MarkVaryMut(req) == req

\* req->gzip_vary = 1;
MarkVary(req) == [req EXCEPT !.gzip_vary = TRUE]

check_eligilityMut(req, ae) ==
  LET marked == [req EXCEPT !.gzip_tested = TRUE, !.gzip_ok = FALSE]
  IN IF ~req.main
     THEN [req |-> marked, rc |-> NGX_DECLINED, ae_rc |-> "NONE"]
     ELSE IF check_accept_encoding(ae) # NGX_OK
     THEN [req |-> marked, rc |-> NGX_DECLINED,
           ae_rc |-> check_accept_encoding(ae)]
     ELSE [req |-> marked, rc |-> NGX_OK, ae_rc |-> check_accept_encoding(ae)]

check_eligility(req, ae) ==
  IF ~req.main
  THEN [req |-> req, rc |-> NGX_DECLINED, ae_rc |-> "NONE"]
  ELSE IF check_accept_encoding(ae) # NGX_OK
  THEN [req |-> req, rc |-> NGX_DECLINED, ae_rc |-> check_accept_encoding(ae)]
  ELSE [req |-> [req EXCEPT !.gzip_tested = TRUE, !.gzip_ok = FALSE],
        rc |-> NGX_OK,
        ae_rc |-> check_accept_encoding(ae)]

ngx_http_brotli_check_request(req, ae) ==
  IF ~req.main
  THEN [req |-> req, rc |-> NGX_DECLINED, ae_rc |-> "NONE"]
  ELSE IF check_accept_encoding(ae) # NGX_OK
  THEN [req |-> req, rc |-> NGX_DECLINED, ae_rc |-> check_accept_encoding(ae)]
  ELSE [req |-> [req EXCEPT !.gzip_tested = TRUE, !.gzip_ok = FALSE],
        rc |-> NGX_OK,
        ae_rc |-> check_accept_encoding(ae)]

(***************************************************************************)
(* ngx_http_brotli_header_filter.  env is what the environment does during *)
(* the call: env.fail names the allocation that fails ("none": none),      *)
(* env.header_rc is what the next header filter returns.  The result       *)
(* carries the request, the return value, whether the header went to the   *)
(* next header filter without error, the eligibility check made, whether a *)
(* session was created, and the allocation that failed.                    *)
(***************************************************************************)
\* the rest of the header filter chain; its last filter marks a HEAD
\* response header-only
ngx_http_next_header_filter(req, env) ==
  [req |-> [req EXCEPT !.header_only = @ \/ req.method = "HEAD"],
   rc |-> env.header_rc,
   sent |-> env.header_rc \in {NGX_OK, NGX_AGAIN}]

StatusEligibleMut(status) == status = "NGX_HTTP_OK"

\* status is NGX_HTTP_OK, NGX_HTTP_FORBIDDEN or NGX_HTTP_NOT_FOUND
StatusEligible(status) ==
  status \in {"NGX_HTTP_OK", "NGX_HTTP_FORBIDDEN", "NGX_HTTP_NOT_FOUND"}

AlreadyEncodedMut(req) == FALSE

\* r->headers_out.content_encoding && r->headers_out.content_encoding->value.len
AlreadyEncoded(req) ==
  /\ req.headers_out.content_encoding.present
  /\ Len(req.headers_out.content_encoding.value) # 0

\* content_length_n != -1 && content_length_n < conf->min_length
TooSmall(req, cf) ==
  /\ req.headers_out.content_length_n # -1
  /\ req.headers_out.content_length_n < cf.filter.min_length

\* ngx_http_test_content_type(r, &conf->types) != NULL
ngx_http_test_content_type(req, types) ==
  /\ req.headers_out.content_type # ""
  /\ req.headers_out.content_type \in types

ngx_http_clear_content_length(req) ==
  [req EXCEPT !.headers_out.content_length_n = -1,
              !.headers_out.content_length = FALSE]

ngx_http_clear_accept_ranges(req) ==
  [req EXCEPT !.allow_ranges = FALSE, !.headers_out.accept_ranges = FALSE]

\* a strong etag gets the W/ prefix, or is dropped when the copy cannot be
\* allocated
ngx_http_weak_etag(req, env) ==
  IF req.headers_out.etag # "strong" THEN req
  ELSE IF env.fail = "weak_etag" THEN [req EXCEPT !.headers_out.etag = "none"]
  ELSE [req EXCEPT !.headers_out.etag = "weak"]

FilterResult(n, check, created, fail) ==
  [req |-> n.req, rc |-> n.rc, sent |-> n.sent, check |-> check,
   created |-> created, fail |-> fail]

\* lines 736-766: the request is eligible and chk is the check that said so
CreateSession(chk, env) ==
  LET check == [rc |-> chk.rc, ae_rc |-> chk.ae_rc]
      with_ctx == [chk.req EXCEPT !.has_ctx = TRUE]
      marked == [with_ctx EXCEPT
                   !.headers_out.content_encoding = Header(kEncoding),
                   !.main_filter_need_in_memory = TRUE]
      cleared == ngx_http_clear_accept_ranges(
                   ngx_http_clear_content_length(marked))
  IN IF env.fail = "ctx"
     THEN [req |-> chk.req, rc |-> NGX_ERROR, sent |-> FALSE, check |-> check,
           created |-> FALSE, fail |-> "ctx"]
     ELSE IF env.fail = "list_push"
     THEN [req |-> with_ctx, rc |-> NGX_ERROR, sent |-> FALSE,
           check |-> check, created |-> TRUE, fail |-> "list_push"]
     ELSE Bind(Bind(ngx_http_weak_etag(cleared, env),
                    LAMBDA q : ngx_http_next_header_filter(q, env)),
               LAMBDA n : FilterResult(
                            n, check, TRUE,
                            IF /\ env.fail = "weak_etag"
                               /\ chk.req.headers_out.etag = "strong"
                            THEN "weak_etag" ELSE "none"))

\* lines 729-734: the response is compressible, chk is the eligibility check
Negotiate(chk, env) ==
  IF chk.rc # NGX_OK
  THEN Bind(ngx_http_next_header_filter(chk.req, env),
            LAMBDA n : FilterResult(n, [rc |-> chk.rc, ae_rc |-> chk.ae_rc],
                                    FALSE, "none"))
  ELSE CreateSession(chk, env)

ngx_http_brotli_header_filter(req, cf, ae, env) ==
  LET bypass == Bind(ngx_http_next_header_filter(req, env),
                     LAMBDA n : FilterResult(n, NoCheck, FALSE, "none"))
  IN IF ~cf.filter.enable THEN bypass
     ELSE IF ~StatusEligible(req.headers_out.status) THEN bypass
     ELSE IF req.header_only THEN bypass
     ELSE IF AlreadyEncoded(req) THEN bypass
     ELSE IF TooSmall(req, cf) THEN bypass
     ELSE IF ~ngx_http_test_content_type(req, cf.filter.types) THEN bypass
     ELSE Bind(ngx_http_brotli_check_request(MarkVary(req), ae),
               LAMBDA chk : Negotiate(chk, env))

(***************************************************************************)
(* The brotli encoder, by its streaming interface.  Output bytes are       *)
(* numbered in the order the encoder emits them: produced is the number    *)
(* emitted so far, the last avail of them are still pending inside the     *)
(* encoder.  alloc = FALSE is the NULL handle.                             *)
(***************************************************************************)
NullEncoder ==
  [alloc |-> FALSE, stream |-> "PROCESSING", avail |-> 0, produced |-> 0]

\* BrotliEncoderCreateInstance, success
NewEncoder ==
  [alloc |-> TRUE, stream |-> "PROCESSING", avail |-> 0, produced |-> 0]

BrotliEncoderHasMoreOutput(e) == e.avail > 0

BrotliEncoderIsFinished(e) == e.stream = "FINISHED" /\ e.avail = 0

\* BrotliEncoderTakeOutput with *size = 0: the whole pending extent is taken
BrotliEncoderTakeOutput(e) ==
  [out_ptr |-> e.produced - e.avail,
   available_output |-> e.avail,
   enc |-> [e EXCEPT !.avail = 0,
                     !.stream = IF @ = "FLUSH_REQUESTED" THEN "PROCESSING"
                                                         ELSE @]]

Emit(e, stream, p) ==
  [e EXCEPT !.stream = stream, !.avail = p, !.produced = @ + p]

\* BrotliEncoderCompressStream(e, op, &available_in = n, ..., &available_out = 0,
\* NULL, NULL) returning true: the set of results.  The encoder stops before
\* the end of the input, or before the end of a FINISH, only with output
\* pending; it is finished only by a FINISH that took all input, and then the
\* end of the stream is pending output.  It keeps one byte of MaxOutTotal for
\* the end of the stream.
BrotliEncoderCompressStream(e, op, n) ==
  LET Room == MaxOutTotal - e.produced
  IN IF e.avail > 0 \/ e.stream = "FINISHED"
     THEN {[enc |-> e, available_in |-> n]}
     ELSE { [enc |-> Emit(e, "PROCESSING", p), available_in |-> n - c] :
              c \in 0..(n - 1), p \in 1..(Room - 1) }
          \cup
          (CASE op = "BROTLI_OPERATION_PROCESS" ->
                  { [enc |-> Emit(e, "PROCESSING", p), available_in |-> 0] :
                      p \in 0..(Room - 1) }
             [] op = "BROTLI_OPERATION_FLUSH" ->
                  { [enc |-> Emit(e, IF p > 0 THEN "FLUSH_REQUESTED"
                                              ELSE "PROCESSING", p),
                     available_in |-> 0] : p \in 0..(Room - 1) }
             [] op = "BROTLI_OPERATION_FINISH" ->
                  { [enc |-> Emit(e, "FINISHED", p), available_in |-> 0] :
                      p \in 1..Room }
                  \cup
                  { [enc |-> Emit(e, "FINISHING", p), available_in |-> 0] :
                      p \in 1..(Room - 1) })

(***************************************************************************)
(* The session and its output buffer.                                      *)
(***************************************************************************)
\* the context as ngx_pcalloc leaves it in the header filter
Ctx0 ==
  [encoder |-> NullEncoder, bytes_in |-> 0, bytes_out |-> 0, in |-> <<>>,
   out_chain |-> NULL, out_buf |-> NULL,
   initialized |-> FALSE, closed |-> FALSE, success |-> FALSE,
   output_ready |-> FALSE, output_busy |-> FALSE,
   end_of_input |-> FALSE, end_of_block |-> FALSE]

\* ngx_calloc_buf
Buf0 ==
  [start |-> 0, pos |-> 0, last |-> 0, last_buf |-> FALSE, flush |-> FALSE]

ngx_buf_size(b) == b.last - b.pos

Chunks ==
  [pos : {0}, last : 0..MaxChunkSize, last_buf : BOOLEAN, flush : BOOLEAN]

\* the bodies a producer sends: the final chunk, and only it, is marked last
InputSeqs ==
  UNION { { s \in [1..n -> Chunks] :
              \A k \in 1..n : s[k].last_buf <=> (k = n) } : n \in 1..MaxChunks }

\* the step did not hand its input chain to the next body filter
NotForwarded == [called |-> FALSE, in |-> <<>>]

\* return ngx_http_next_body_filter(r, in);
Forwarded(in) == [called |-> TRUE, in |-> in]

\* the step did not call BrotliEncoderCompressStream
NoFeed == [op |-> "none", available_in |-> 0]

\* BrotliEncoderCompressStream(ctx->encoder, op, &available_in, ...)
Feed(op, available_in) == [op |-> op, available_in |-> available_in]

Hist0 ==
  [ops |-> <<>>, fail |-> "none", fed |-> 0, pulled |-> <<>>, handed |-> <<>>,
   delivered |-> <<>>, created |-> 0, destroyed |-> 0, closes |-> 0,
   finishes |-> 0, forwarded |-> NotForwarded, feed |-> NoFeed]

\* every step records the encoder operations it performed, its failure, the
\* input chain it forwarded to the next body filter, and its feed call
Step(h, ops, fail) ==
  [h EXCEPT !.ops = ops, !.fail = fail, !.forwarded = NotForwarded,
            !.feed = NoFeed]

ngx_http_brotli_filter_closeNoFlag(c) ==
  [ctx |-> [c EXCEPT !.encoder = NullEncoder, !.out_chain = NULL,
                     !.out_buf = NULL],
   destroyed |-> IF c.encoder.alloc THEN 1 ELSE 0]

ngx_http_brotli_filter_closeMut(c) ==
  [ctx |-> [c EXCEPT !.closed = TRUE, !.out_chain = NULL, !.out_buf = NULL],
   destroyed |-> IF c.encoder.alloc THEN 1 ELSE 0]

\* the context after the call, and the number of BrotliEncoderDestroyInstance
\* calls it made
ngx_http_brotli_filter_close(c) ==
  IF c.closed
  THEN [ctx |-> c, destroyed |-> 0]
  ELSE [ctx |-> [c EXCEPT !.closed = TRUE, !.encoder = NullEncoder,
                          !.out_chain = NULL, !.out_buf = NULL],
        destroyed |-> IF c.encoder.alloc THEN 1 ELSE 0]

CloseHist(h, cl) ==
  [h EXCEPT !.destroyed = @ + cl.destroyed, !.closes = @ + 1]

InitOutcomes == {"ok", "create", "quality", "lgwin", "out_buf", "out_chain"}

MarkInitializedMut(c) == c

\* ctx->initialized = 1;
MarkInitialized(c) == [c EXCEPT !.initialized = TRUE]

\* outcome names the step that fails, "ok" if none does
ngx_http_brotli_filter_ensure_stream_initialized(c, outcome) ==
  IF c.initialized THEN [ctx |-> c, rc |-> NGX_OK, created |-> 0]
  ELSE LET c1 == MarkInitialized(c)
           c2 == [c1 EXCEPT !.encoder = NewEncoder]
           c3 == [c2 EXCEPT !.out_buf = "out_buf"]
           c4 == [c3 EXCEPT !.out_chain = "out_chain"]
       IN CASE outcome = "create" -> [ctx |-> c1, rc |-> NGX_ERROR, created |-> 0]
            [] outcome \in {"quality", "lgwin", "out_buf"} ->
                 [ctx |-> c2, rc |-> NGX_ERROR, created |-> 1]
            [] outcome = "out_chain" ->
                 [ctx |-> c3, rc |-> NGX_ERROR, created |-> 1]
            [] OTHER -> [ctx |-> c4, rc |-> NGX_OK, created |-> 1]

ClearBusyMut(c, b) == [c EXCEPT !.output_busy = FALSE]

\* if (ngx_buf_size(ctx->out_buf) == 0) ctx->output_busy = 0;
ClearBusy(c, b) ==
  IF ngx_buf_size(b) = 0 THEN [c EXCEPT !.output_busy = FALSE] ELSE c

MustDrainMut(c) == c.output_ready

\* if (ctx->output_busy || ctx->output_ready)
MustDrain(c) == c.output_busy \/ c.output_ready

ConsumedInputMut(input_size, available_input) == input_size

\* consumed_input = input_size - available_input;
ConsumedInput(input_size, available_input) == input_size - available_input

MarkSuccessMut(c) == c

\* ctx->success = 1;
MarkSuccess(c) == [c EXCEPT !.success = TRUE]

OperationMut(b) ==
  IF b.flush THEN "BROTLI_OPERATION_FLUSH"
  ELSE IF b.last_buf THEN "BROTLI_OPERATION_FINISH"
  ELSE "BROTLI_OPERATION_PROCESS"

\* the operation tag of a feed call
Operation(b) ==
  IF b.last_buf THEN "BROTLI_OPERATION_FINISH"
  ELSE IF b.flush THEN "BROTLI_OPERATION_FLUSH"
  ELSE "BROTLI_OPERATION_PROCESS"

\* the byte numbers of an extent
ExtentBytes(e) == [k \in 1..e.len |-> e.start + k]

RECURSIVE Flatten(_)
Flatten(es) == IF es = <<>> THEN <<>> ELSE ExtentBytes(Head(es)) \o Flatten(Tail(es))

RECURSIVE SumLen(_)
SumLen(es) == IF es = <<>> THEN 0 ELSE Head(es).len + SumLen(Tail(es))

RECURSIVE TotalSize(_)
TotalSize(cs) == IF cs = <<>> THEN 0 ELSE Head(cs).last + TotalSize(Tail(cs))

Return(code) == pc' = "idle" /\ ret' = code

NegotiationIdle == UNCHANGED <<accept_encoding, ae_rc, r, conf, file, resp>>

(***************************************************************************)
(* handler of the static module.  env is what the environment does during  *)
(* the call: env.fail names the nginx call that fails ("none": none),      *)
(* env.header_rc and env.body_rc are what the next header filter and the   *)
(* next body filter return.  f is the sibling file.                        *)
(***************************************************************************)
\* the handler returns rc before anything went to a filter; stage is the part
\* of the handler that returned: "eligibility" (lines 176-193), "lookup"
\* (lines 195-304) or "send" (lines 306-385)
Done(req, rc, log, check, fail, stage) ==
  [req |-> req, rc |-> rc, log |-> log, fail |-> fail, stage |-> stage,
   sent |-> FALSE, out |-> <<>>, passed |-> FALSE, check |-> check,
   created |-> FALSE]

MethodSupportedMut(method) == TRUE

\* req->method & (NGX_HTTP_GET | NGX_HTTP_HEAD)
MethodSupported(method) == method \in {"GET", "HEAD"}

\* req->uri.data[req->uri.len - 1] == '/'
EndsWithSlash(uri) == uri[Len(uri)] = Ascii.SLASH

\* ngx_http_map_uri_to_path followed by the copy of kSuffix
SiblingPath(uri) == uri \o kSuffix

OpenFailureMut(err, have_openat) ==
  IF err = "0"
  THEN [rc |-> "NGX_HTTP_INTERNAL_SERVER_ERROR", log |-> <<>>]
  ELSE [rc |-> "NGX_HTTP_NOT_FOUND", log |-> <<"NGX_LOG_ERR">>]

\* the switch on file_info.err after ngx_open_cached_file failed
OpenFailure(err, have_openat) ==
  IF err = "0"
  THEN [rc |-> "NGX_HTTP_INTERNAL_SERVER_ERROR", log |-> <<>>]
  ELSE IF err \in NotFoundErrors
  THEN [rc |-> NGX_DECLINED, log |-> <<"NGX_LOG_ERR">>]
  ELSE IF (have_openat /\ err \in SymlinkErrors) \/ err = "NGX_EACCES"
  THEN [rc |-> NGX_DECLINED, log |-> <<"NGX_LOG_ERR">>]
  ELSE [rc |-> NGX_DECLINED, log |-> <<"NGX_LOG_CRIT">>]

\* the etag of the core module, made from mtime and size when etag is on
ngx_http_set_etag(req, cf) ==
  IF cf.etag THEN [req EXCEPT !.headers_out.etag = "strong"] ELSE req

ngx_http_set_content_typeMut(req) ==
  [req EXCEPT !.headers_out.content_type = TypeOf(Exten(SiblingPath(req.uri)))]

\* the type of the core module's table for the extension of the request URI
ngx_http_set_content_type(req) ==
  [req EXCEPT !.headers_out.content_type = TypeOf(Exten(req.uri))]

\* rc > NGX_OK
IsHttpStatus(rc) == rc \notin {NGX_OK, NGX_AGAIN, NGX_ERROR, NGX_DECLINED}

BodyFilterBypassMut(req, c) == ~req.has_ctx \/ req.header_only

\* the entry test of ngx_http_brotli_body_filter
BodyFilterBypass(req, c) == ~req.has_ctx \/ c.closed \/ req.header_only

\* lines 373-384: hf is what ngx_http_send_header made of the request, out
\* the chain of the one file buffer
SendBody(hf, out, env, check) ==
  LET header == [req |-> hf.req, rc |-> hf.rc, log |-> <<>>,
                 fail |-> IF hf.sent THEN "none" ELSE "send_header",
                 stage |-> "send", sent |-> hf.sent, out |-> <<>>,
                 passed |-> FALSE, check |-> check, created |-> hf.created]
  IN IF hf.rc = NGX_ERROR \/ IsHttpStatus(hf.rc) \/ hf.req.header_only
     THEN header
     ELSE IF BodyFilterBypass(hf.req, Ctx0)
     THEN [header EXCEPT !.rc = env.body_rc, !.out = out, !.passed = TRUE,
                         !.fail = IF env.body_rc = NGX_ERROR
                                  THEN "output_filter" ELSE "none"]
     ELSE [header EXCEPT !.rc = "NONE", !.out = out]

\* lines 306-385: the sibling is a regular file
SendSibling(req, cf, ae, f, env, check) ==
  LET tested == [req EXCEPT !.root_tested = ~req.error_page]
      filled == [tested EXCEPT !.headers_out.status = "NGX_HTTP_OK",
                               !.headers_out.content_length_n = f.size,
                               !.headers_out.last_modified_time = f.mtime]
      tagged == ngx_http_set_etag(filled, cf)
      typed == ngx_http_set_content_type(tagged)
      encoded == [typed EXCEPT
                    !.headers_out.content_encoding = Header(kEncoding)]
      out == << [file |-> SiblingPath(req.uri),
                 file_pos |-> 0,
                 file_last |-> f.size,
                 in_file |-> f.size # 0,
                 last_buf |-> req.main,
                 last_in_chain |-> TRUE] >>
  IN IF env.fail = "discard_request_body"
     THEN Done(tested, "NGX_HTTP_INTERNAL_SERVER_ERROR", <<>>, check,
               "discard_request_body", "send")
     ELSE IF env.fail = "set_etag"
     THEN Done(filled, "NGX_HTTP_INTERNAL_SERVER_ERROR", <<>>, check,
               "set_etag", "send")
     ELSE IF env.fail = "set_content_type"
     THEN Done(tagged, "NGX_HTTP_INTERNAL_SERVER_ERROR", <<>>, check,
               "set_content_type", "send")
     ELSE IF env.fail = "list_push"
     THEN Done(typed, "NGX_HTTP_INTERNAL_SERVER_ERROR", <<>>, check,
               "list_push", "send")
     ELSE IF env.fail = "buf"
     THEN Done(encoded, "NGX_HTTP_INTERNAL_SERVER_ERROR", <<>>, check, "buf",
               "send")
     ELSE Bind(Bind(encoded,
                    LAMBDA q : ngx_http_brotli_header_filter(q, cf, ae, env)),
               LAMBDA hf : SendBody(hf, out, env, check))

\* lines 195-304: map the path, open the sibling, look at what it is
OpenSibling(req, cf, ae, f, env, check) ==
  IF env.fail = "map_uri_to_path"
  THEN Done(req, "NGX_HTTP_INTERNAL_SERVER_ERROR", <<>>, check,
            "map_uri_to_path", "lookup")
  ELSE IF env.fail = "set_disable_symlinks"
  THEN Done(req, "NGX_HTTP_INTERNAL_SERVER_ERROR", <<>>, check,
            "set_disable_symlinks", "lookup")
  ELSE IF f.rc # NGX_OK
  THEN Bind(OpenFailure(f.err, cf.have_openat),
            LAMBDA e : Done(req, e.rc, e.log, check, "open_cached_file",
                            "lookup"))
  ELSE IF f.is_dir THEN Done(req, NGX_DECLINED, <<>>, check, "none", "lookup")
  ELSE IF ~f.is_file
  THEN Done(req, "NGX_HTTP_NOT_FOUND", <<"NGX_LOG_CRIT">>, check, "none",
            "lookup")
  ELSE SendSibling(req, cf, ae, f, env, check)

\* lines 186-193: chk is the eligibility check of on mode
Negotiated(chk, cf, ae, f, env) ==
  IF chk.rc # NGX_OK
  THEN Done(chk.req, NGX_DECLINED, <<>>, [rc |-> chk.rc, ae_rc |-> chk.ae_rc],
            "none", "eligibility")
  ELSE Bind(chk.req,
            LAMBDA q : OpenSibling(q, cf, ae, f, env,
                                   [rc |-> chk.rc, ae_rc |-> chk.ae_rc]))

handler(req, cf, ae, f, env) ==
  IF ~MethodSupported(req.method)
  THEN Done(req, NGX_DECLINED, <<>>, NoCheck, "none", "eligibility")
  ELSE IF EndsWithSlash(req.uri)
  THEN Done(req, NGX_DECLINED, <<>>, NoCheck, "none", "eligibility")
  ELSE IF cf.cfg.enable = NGX_HTTP_BROTLI_STATIC_OFF
  THEN Done(req, NGX_DECLINED, <<>>, NoCheck, "none", "eligibility")
  ELSE IF cf.cfg.enable = NGX_HTTP_BROTLI_STATIC_ALWAYS
  THEN OpenSibling(req, cf, ae, f, env, NoCheck)
  ELSE Bind(check_eligility(MarkVary(req), ae),
            LAMBDA chk : Negotiated(chk, cf, ae, f, env))

(***************************************************************************)
(* ngx_http_brotli_ratio_variable.  The product bytes_in * 1000 is a       *)
(* uint64_t; within the bounds used here it does not wrap.                 *)
(***************************************************************************)
\* %ui of ngx_sprintf: the decimal digits of n
RECURSIVE Decimal(_)
Decimal(n) ==
  IF n < 10 THEN <<Ascii.D0 + n>>
  ELSE Decimal(n \div 10) \o <<Ascii.D0 + (n % 10)>>

\* %02ui of ngx_sprintf: at least two digits, padded with '0'
Decimal02(n) == IF n < 10 THEN <<Ascii.D0>> \o Decimal(n) ELSE Decimal(n)

RoundsUpMut(scaled_ratio) == FALSE

\* if (scaled_ratio % 10 >= 5)
RoundsUp(scaled_ratio) == scaled_ratio % 10 >= 5

CarriesMut(ratio_frac) == FALSE

\* if (ratio_frac >= 100)
Carries(ratio_frac) == ratio_frac >= 100

\* req.has_ctx: ngx_http_get_module_ctx is not NULL; c: the session
ngx_http_brotli_ratio_variable(req, c, env) ==
  LET v0 == [valid |-> TRUE, no_cacheable |-> FALSE, not_found |-> FALSE,
             data |-> <<>>]
      scaled_ratio == (c.bytes_in * 1000) \div c.bytes_out
      ratio_int == scaled_ratio \div 1000
      ratio_frac == (scaled_ratio \div 10) % 100
      carry == RoundsUp(scaled_ratio) /\ Carries(ratio_frac + 1)
      int == IF carry THEN ratio_int + 1 ELSE ratio_int
      frac == IF carry THEN 0
              ELSE IF RoundsUp(scaled_ratio) THEN ratio_frac + 1
              ELSE ratio_frac
  IN IF ~req.has_ctx \/ ~c.success \/ c.bytes_out = 0
     THEN [v |-> [v0 EXCEPT !.not_found = TRUE], rc |-> NGX_OK,
           fail |-> "none"]
     ELSE IF env.fail = "pnalloc"
     THEN [v |-> v0, rc |-> NGX_ERROR, fail |-> "pnalloc"]
     ELSE [v |-> [v0 EXCEPT
                    !.data = Decimal(int) \o <<Ascii.DOT>> \o Decimal02(frac)],
           rc |-> NGX_OK, fail |-> "none"]

(***************************************************************************)
(* ngx_http_brotli_parse_wbits, the post handler of brotli_window.         *)
(* parameter is the size in bytes that ngx_conf_set_size_slot stored; the  *)
(* result carries the stored value as the call leaves it.                  *)
(***************************************************************************)
WindowMatchesMut(wsize_bytes, bits) == wsize_bytes >= 2 ^ bits

\* wsize_bytes == (1u << bits); the loop keeps bits at or below
\* BROTLI_MAX_WINDOW_BITS, where the 32-bit shift does not wrap
WindowMatches(wsize_bytes, bits) == wsize_bytes = 2 ^ bits

\* the for loop, entered with bits
RECURSIVE ParseWbitsFrom(_, _)
ParseWbitsFrom(wsize_bytes, bits) ==
  IF bits > BROTLI_MAX_WINDOW_BITS
  THEN [parameter |-> wsize_bytes,
        rc |-> "must be 1k, 2k, 4k, 8k, 16k, 32k, 64k, 128k, 256k, 512k, 1m, 2m, 4m, 8m or 16m",
        log |-> <<"NGX_LOG_EMERG">>]
  ELSE IF WindowMatches(wsize_bytes, bits)
  THEN [parameter |-> bits, rc |-> NGX_CONF_OK, log |-> <<>>]
  ELSE ParseWbitsFrom(wsize_bytes, bits + 1)

ngx_http_brotli_parse_wbits(parameter) ==
  ParseWbitsFrom(parameter, BROTLI_MIN_WINDOW_BITS)

(***************************************************************************)
(* ngx_http_brotli_body_filter: entry.  An invocation passes the next k    *)
(* chunks of the body (k = 0: in == NULL, a re-invocation).                *)
(***************************************************************************)
Rest(k) == SubSeq(todo, k + 1, Len(todo))

\* if (ctx == NULL || ctx->closed || r->header_only) return next(r, in);
PassThrough ==
  /\ pc = "idle"
  /\ BodyFilterBypass(r, ctx)
  /\ \E k \in 0..Len(todo), rc \in {NGX_OK, NGX_AGAIN, NGX_ERROR} :
       /\ todo' = Rest(k)
       /\ ret' = rc
       /\ hist' = [Step(hist, <<>>, "none")
                     EXCEPT !.forwarded = Forwarded(SubSeq(todo, 1, k))]
  /\ NegotiationIdle
  /\ UNCHANGED <<input, ctx, buf, buffered, pc, cons_held>>

\* ensure_stream_initialized fails: close, return NGX_ERROR
InvokeInitFail ==
  /\ pc = "idle"
  /\ ~BodyFilterBypass(r, ctx)
  /\ ~ctx.initialized
  /\ \E k \in 0..Len(todo), outcome \in InitOutcomes \ {"ok"} :
       LET ini == ngx_http_brotli_filter_ensure_stream_initialized(ctx, outcome)
           cl == ngx_http_brotli_filter_close(ini.ctx)
       IN /\ ini.rc # NGX_OK
          /\ ctx' = cl.ctx
          /\ todo' = Rest(k)
          /\ hist' = [CloseHist(Step(hist, <<>>, "init"), cl)
                        EXCEPT !.created = @ + ini.created]
  /\ Return(NGX_ERROR)
  /\ NegotiationIdle
  /\ UNCHANGED <<input, buf, buffered, cons_held>>

\* ngx_chain_add_copy fails after appending j of the k chunks
InvokeAddCopyFail ==
  /\ pc = "idle"
  /\ ~BodyFilterBypass(r, ctx)
  /\ \E k \in 1..Len(todo), j \in 0..(Len(todo) - 1) :
       LET ini == ngx_http_brotli_filter_ensure_stream_initialized(ctx, "ok")
           c1 == [ini.ctx EXCEPT !.in = @ \o SubSeq(todo, 1, j)]
           cl == ngx_http_brotli_filter_close(c1)
       IN /\ j < k
          /\ ctx' = cl.ctx
          /\ buf' = IF ctx.initialized THEN buf ELSE Buf0
          /\ todo' = Rest(k)
          /\ hist' = [CloseHist(Step(hist, <<>>, "add_copy"), cl)
                        EXCEPT !.created = @ + ini.created]
  /\ Return(NGX_ERROR)
  /\ NegotiationIdle
  /\ UNCHANGED <<input, buffered, cons_held>>

\* initialized (now or before), the input appended: enter the main loop
Invoke ==
  /\ pc = "idle"
  /\ ~BodyFilterBypass(r, ctx)
  /\ \E k \in 0..Len(todo) :
       LET ini == ngx_http_brotli_filter_ensure_stream_initialized(ctx, "ok")
       IN /\ ctx' = [ini.ctx EXCEPT !.in = @ \o SubSeq(todo, 1, k)]
          /\ buf' = IF ctx.initialized THEN buf ELSE Buf0
          /\ todo' = Rest(k)
          /\ buffered' = IF k > 0 THEN TRUE ELSE buffered
          /\ hist' = [Step(hist, <<>>, "none") EXCEPT !.created = @ + ini.created]
  /\ pc' = "loop"
  /\ ret' = "NONE"
  /\ NegotiationIdle
  /\ UNCHANGED <<input, cons_held>>

(***************************************************************************)
(* The main loop, one action per pass.                                     *)
(***************************************************************************)
CommitOutputMut(c) ==
  IF c.output_ready THEN [c EXCEPT !.output_busy = TRUE] ELSE c

\* if (ctx->output_ready) { ctx->output_ready = 0; ctx->output_busy = 1; }
CommitOutput(c) ==
  IF c.output_ready
  THEN [c EXCEPT !.output_ready = FALSE, !.output_busy = TRUE]
  ELSE c

MarkPendingInputMut(c, bit) == bit

\* if (ctx->in != NULL) r->connection->buffered |= NGX_HTTP_BROTLI_BUFFERED;
MarkPendingInput(c, bit) == IF c.in # <<>> THEN TRUE ELSE bit

CannotContinueMut(c) == TRUE

\* rc == NGX_AGAIN: if (ctx->output_busy) return NGX_AGAIN; else continue
CannotContinue(c) == c.output_busy

\* Output is staged or busy: call the next body filter.  The consumer takes
\* the chain if one is handed, drains k bytes of the buffer it references and
\* answers rc.
Drain(k, rc) ==
  /\ pc = "loop"
  /\ MustDrain(ctx)
  /\ LET available_busy_output ==
           IF ctx.output_busy THEN ngx_buf_size(buf) ELSE 0
         holds == cons_held \/ ctx.output_ready
         buf1 == [buf EXCEPT !.pos = @ + k]
         c1 == CommitOutput(ctx)
         c2 == ClearBusy(c1, buf1)
         h1 == [Step(hist, <<>>, IF rc = NGX_ERROR THEN "consumer" ELSE "none")
                  EXCEPT !.handed = IF ctx.output_ready
                                    THEN Append(@, [start |-> buf.start,
                                                    len |-> buf.last - buf.start])
                                    ELSE @,
                         !.delivered = @ \o [n \in 1..k |-> buf.pos + n]]
         cl == ngx_http_brotli_filter_close(c2)
     IN /\ k \in (IF holds THEN 0..ngx_buf_size(buf) ELSE {0})
        /\ buf' = buf1
        /\ cons_held' = (holds /\ ngx_buf_size(buf1) > 0)
        /\ CASE rc = NGX_OK ->
                  /\ ctx' = c2
                  /\ hist' = h1
                  /\ IF c2.output_busy /\ available_busy_output = ngx_buf_size(buf1)
                     THEN buffered' = TRUE /\ Return(NGX_AGAIN)
                     ELSE UNCHANGED <<buffered, pc, ret>>
             [] rc = NGX_AGAIN ->
                  /\ ctx' = c2
                  /\ hist' = h1
                  /\ IF CannotContinue(c2)
                     THEN /\ buffered' = MarkPendingInput(c2, buffered)
                          /\ Return(NGX_AGAIN)
                     ELSE UNCHANGED <<buffered, pc, ret>>
             [] OTHER ->
                  /\ ctx' = cl.ctx
                  /\ hist' = CloseHist(h1, cl)
                  /\ Return(NGX_ERROR)
                  /\ UNCHANGED buffered
  /\ NegotiationIdle
  /\ UNCHANGED <<input, todo>>

LoopDrainProgress ==
  \E k \in 1..MaxOutTotal, rc \in {NGX_OK, NGX_AGAIN} : Drain(k, rc)

LoopDrainStall == \E rc \in {NGX_OK, NGX_AGAIN} : Drain(0, rc)

LoopDrainFail == \E k \in 0..MaxOutTotal : Drain(k, NGX_ERROR)

StampsFinalMut(c, enc) == c.end_of_input

\* if (ctx->end_of_input && BrotliEncoderIsFinished(ctx->encoder))
StampsFinal(c, enc) == c.end_of_input /\ BrotliEncoderIsFinished(enc)

\* the encoder has output: pull one extent into out_buf and stage it
LoopTake ==
  /\ pc = "loop"
  /\ ~MustDrain(ctx)
  /\ BrotliEncoderHasMoreOutput(ctx.encoder)
  /\ LET t == BrotliEncoderTakeOutput(ctx.encoder)
         fin == StampsFinal(ctx, t.enc)
         blk == ~fin /\ ctx.end_of_block
     IN /\ buf' = [start |-> t.out_ptr, pos |-> t.out_ptr,
                   last |-> t.out_ptr + t.available_output,
                   last_buf |-> fin, flush |-> blk]
        /\ ctx' = [ctx EXCEPT !.encoder = t.enc,
                              !.bytes_out = @ + t.available_output,
                              !.end_of_block = FALSE,
                              !.output_ready = TRUE]
        /\ buffered' = IF fin \/ blk THEN FALSE ELSE buffered
        /\ hist' = [Step(hist,
                         <<"HasMoreOutput", "TakeOutput">>
                           \o (IF ctx.end_of_input THEN <<"IsFinished">> ELSE <<>>),
                         "none")
                      EXCEPT !.pulled = Append(@, [start |-> t.out_ptr,
                                                   len |-> t.available_output])]
  /\ NegotiationIdle
  /\ UNCHANGED <<input, todo, pc, ret, cons_held>>

\* TakeOutput returns NULL or no bytes: close, return NGX_ERROR
LoopTakeFail ==
  /\ pc = "loop"
  /\ ~MustDrain(ctx)
  /\ BrotliEncoderHasMoreOutput(ctx.encoder)
  /\ LET cl == ngx_http_brotli_filter_close(ctx)
     IN /\ ctx' = cl.ctx
        /\ hist' = CloseHist(Step(hist, <<"HasMoreOutput", "TakeOutput">>,
                                  "TakeOutput"), cl)
  /\ Return(NGX_ERROR)
  /\ NegotiationIdle
  /\ UNCHANGED <<input, todo, buf, buffered, cons_held>>

\* the encoder is finished and drained: success
LoopFinished ==
  /\ pc = "loop"
  /\ ~MustDrain(ctx)
  /\ ~BrotliEncoderHasMoreOutput(ctx.encoder)
  /\ BrotliEncoderIsFinished(ctx.encoder)
  /\ LET cl == ngx_http_brotli_filter_close(MarkSuccess(ctx))
     IN /\ ctx' = cl.ctx
        /\ hist' = [CloseHist(Step(hist, <<"HasMoreOutput", "IsFinished">>,
                                   "none"), cl)
                      EXCEPT !.finishes = @ + 1]
  /\ buffered' = FALSE
  /\ Return(NGX_OK)
  /\ NegotiationIdle
  /\ UNCHANGED <<input, todo, buf, cons_held>>

EncoderIdle ==
  /\ pc = "loop"
  /\ ~MustDrain(ctx)
  /\ ~BrotliEncoderHasMoreOutput(ctx.encoder)
  /\ ~BrotliEncoderIsFinished(ctx.encoder)

FinalizingMut(c) == c.end_of_input /\ c.in = <<>>

\* if (ctx->end_of_input), tested before the input queue is looked at
Finalizing(c) == c.end_of_input

\* end of input was submitted, the encoder is not finished: zero-input FINISH
LoopFinish ==
  /\ EncoderIdle
  /\ Finalizing(ctx)
  /\ \E o \in BrotliEncoderCompressStream(ctx.encoder,
                                          "BROTLI_OPERATION_FINISH", 0) :
       ctx' = [ctx EXCEPT !.encoder = o.enc]
  /\ buffered' = TRUE
  /\ hist' = [Step(hist, <<"HasMoreOutput", "IsFinished", "CompressStream">>,
                   "none")
                EXCEPT !.feed = Feed("BROTLI_OPERATION_FINISH", 0)]
  /\ NegotiationIdle
  /\ UNCHANGED <<input, todo, buf, pc, ret, cons_held>>

LoopFinishFail ==
  /\ EncoderIdle
  /\ Finalizing(ctx)
  /\ LET cl == ngx_http_brotli_filter_close(ctx)
     IN /\ ctx' = cl.ctx
        /\ hist' = [CloseHist(Step(hist,
                                   <<"HasMoreOutput", "IsFinished",
                                     "CompressStream">>,
                                   "CompressStream"), cl)
                      EXCEPT !.feed = Feed("BROTLI_OPERATION_FINISH", 0)]
  /\ buffered' = TRUE
  /\ Return(NGX_ERROR)
  /\ NegotiationIdle
  /\ UNCHANGED <<input, todo, buf, cons_held>>

\* no queued input: wait for the next invocation
LoopStarved ==
  /\ EncoderIdle
  /\ ~Finalizing(ctx)
  /\ ctx.in = <<>>
  /\ hist' = Step(hist, <<"HasMoreOutput", "IsFinished">>, "none")
  /\ Return(NGX_OK)
  /\ NegotiationIdle
  /\ UNCHANGED <<input, todo, ctx, buf, buffered, cons_held>>

HasInput ==
  /\ EncoderIdle
  /\ ~Finalizing(ctx)
  /\ ctx.in # <<>>

SkipsHeadMut ==
  LET b == Head(ctx.in)
  IN ngx_buf_size(b) = 0

\* if (input_size == 0) if (!last_buf && !flush)
SkipsHead ==
  LET b == Head(ctx.in)
  IN ngx_buf_size(b) = 0 /\ ~b.last_buf /\ ~b.flush

\* an empty chunk without markers is dropped
LoopSkipEmpty ==
  /\ HasInput
  /\ SkipsHead
  /\ ctx' = [ctx EXCEPT !.in = Tail(@)]
  /\ hist' = Step(hist, <<"HasMoreOutput", "IsFinished">>, "none")
  /\ NegotiationIdle
  /\ UNCHANGED <<input, todo, buf, buffered, pc, ret, cons_held>>

FullyConsumedMut(consumed_input, input_size) == TRUE

\* if (consumed_input == input_size)
FullyConsumed(consumed_input, input_size) == consumed_input = input_size

\* submit the head of the queue
LoopFeed ==
  /\ HasInput
  /\ ~SkipsHead
  /\ LET b == Head(ctx.in)
         input_size == ngx_buf_size(b)
     IN \E o \in BrotliEncoderCompressStream(ctx.encoder, Operation(b),
                                             input_size) :
          LET consumed_input == ConsumedInput(input_size, o.available_in)
              b1 == [b EXCEPT !.pos = @ + consumed_input]
              c1 == [ctx EXCEPT !.encoder = o.enc,
                                !.bytes_in = @ + consumed_input]
          IN /\ ctx' = IF FullyConsumed(consumed_input, input_size)
                       THEN [c1 EXCEPT
                               !.end_of_input = IF b.last_buf THEN TRUE ELSE @,
                               !.end_of_block = IF ~b.last_buf /\ b.flush
                                                THEN TRUE ELSE @,
                               !.in = Tail(@)]
                       ELSE [c1 EXCEPT !.in = <<b1>> \o Tail(@)]
             /\ hist' = [Step(hist,
                              <<"HasMoreOutput", "IsFinished", "CompressStream">>,
                              "none")
                           EXCEPT !.fed = @ + (input_size - o.available_in),
                                  !.feed = Feed(Operation(b), input_size)]
  /\ buffered' = TRUE
  /\ NegotiationIdle
  /\ UNCHANGED <<input, todo, buf, pc, ret, cons_held>>

LoopFeedFail ==
  /\ HasInput
  /\ ~SkipsHead
  /\ LET cl == ngx_http_brotli_filter_close(ctx)
         b == Head(ctx.in)
     IN /\ ctx' = cl.ctx
        /\ hist' = [CloseHist(Step(hist,
                                   <<"HasMoreOutput", "IsFinished",
                                     "CompressStream">>,
                                   "CompressStream"), cl)
                      EXCEPT !.feed = Feed(Operation(b), ngx_buf_size(b))]
  /\ buffered' = TRUE
  /\ Return(NGX_ERROR)
  /\ NegotiationIdle
  /\ UNCHANGED <<input, todo, buf, cons_held>>

\* ngx_http_brotli_filter_close called between invocations (response aborted)
AbortClose ==
  /\ pc = "idle"
  /\ hist.closes < MaxCloseCalls
  /\ LET cl == ngx_http_brotli_filter_close(ctx)
     IN /\ ctx' = cl.ctx
        /\ hist' = CloseHist(Step(hist, <<>>, "none"), cl)
  /\ NegotiationIdle
  /\ UNCHANGED <<input, todo, buf, buffered, pc, ret, cons_held>>

(***************************************************************************)
(* The requests, responses and environments of the handler, the header     *)
(* filter and the ratio variable.                                          *)
(***************************************************************************)
\* largest byte counter of a session read by the ratio variable, besides the
\* counters of RatioExamples
MaxBytes == 30

RatioExamples == {333, 1000, 1005}

RatioBytes == (0..MaxBytes) \cup RatioExamples

RequestHeaders == {NoHeader, Header(kEncoding), Header(Str_gzip)}

StaticRequests ==
  { [Request0 EXCEPT !.method = m, !.uri = u, !.main = mn,
                     !.gzip_tested = g, !.gzip_ok = g] :
      m \in {"GET", "HEAD", "POST"}, u \in {Uri_css, Uri_dir},
      mn \in BOOLEAN, g \in BOOLEAN }

StaticConfs ==
  { [Conf0 EXCEPT !.cfg.enable = e, !.filter.enable = fe, !.etag = t,
                  !.have_openat = o] :
      e \in {NGX_HTTP_BROTLI_STATIC_OFF, NGX_HTTP_BROTLI_STATIC_ON,
             NGX_HTTP_BROTLI_STATIC_ALWAYS},
      fe \in BOOLEAN, t \in BOOLEAN, o \in BOOLEAN }

Env0 == [fail |-> "none", header_rc |-> NGX_OK, body_rc |-> NGX_OK]

StaticFaults ==
  {"map_uri_to_path", "set_disable_symlinks", "discard_request_body",
   "set_etag", "set_content_type", "list_push", "buf"}

StaticEnvs ==
  { [Env0 EXCEPT !.fail = f] : f \in StaticFaults }
  \cup { [Env0 EXCEPT !.header_rc = h] :
           h \in {NGX_AGAIN, NGX_ERROR, "NGX_HTTP_INTERNAL_SERVER_ERROR"} }
  \cup { [Env0 EXCEPT !.body_rc = b] : b \in {NGX_OK, NGX_AGAIN, NGX_ERROR} }

\* the response headers a content handler or an earlier filter has set
DynamicHeaders ==
  { [HeadersOut0 EXCEPT !.status = s, !.content_length_n = n,
                        !.content_length = (n # -1), !.etag = val[1],
                        !.accept_ranges = val[2], !.content_type = t,
                        !.content_encoding = ce] :
      s \in {"NGX_HTTP_OK", "NGX_HTTP_FORBIDDEN", "NGX_HTTP_NOT_FOUND",
             "NGX_HTTP_INTERNAL_SERVER_ERROR"},
      n \in {-1, DefaultMinLength - 1, DefaultMinLength},
      val \in {<<"none", FALSE>>, <<"strong", TRUE>>, <<"weak", TRUE>>},
      t \in {"text/html", "image/png", ""},
      ce \in {NoHeader, Header(<<>>), Header(Str_gzip)} }

DynamicResponses ==
  { [Request0 EXCEPT !.main = mn, !.header_only = ho, !.gzip_tested = g,
                     !.gzip_ok = g, !.allow_ranges = h.accept_ranges,
                     !.headers_out = h] :
      mn \in BOOLEAN, ho \in BOOLEAN, g \in BOOLEAN, h \in DynamicHeaders }

FilterConfs == { [Conf0 EXCEPT !.filter.enable = fe] : fe \in BOOLEAN }

FilterEnvs ==
  { [Env0 EXCEPT !.fail = f, !.header_rc = h] :
      f \in {"none", "ctx", "list_push", "weak_etag"},
      h \in {NGX_OK, NGX_ERROR} }

\* the request of a response the header filter has created a session for
SessionRequest ==
  ngx_http_brotli_header_filter(
    [Request0 EXCEPT !.headers_out.status = "NGX_HTTP_OK",
                     !.headers_out.content_type = "text/html"],
    [Conf0 EXCEPT !.filter.enable = TRUE], Header(kEncoding), Env0).req

\* sessions the ratio variable may read
RatioSessions ==
  { [Ctx0 EXCEPT !.bytes_in = n, !.bytes_out = m, !.success = s,
                 !.closed = cl, !.initialized = TRUE] :
      n \in RatioBytes, m \in RatioBytes, s \in BOOLEAN, cl \in BOOLEAN }

\* greatest exponent of the window sizes a brotli_window directive gives
MaxShift == 26

\* sizes of a brotli_window directive: powers of two, their neighbours, and
\* sizes with two bits set
WindowSizes ==
  {0} \cup UNION { {2 ^ b, 2 ^ b + 1, 2 ^ b - 1, 3 * 2 ^ b} : b \in 0..MaxShift }

WindowConfs == { [Conf0 EXCEPT !.filter.lg_win = w] : w \in WindowSizes }

(***************************************************************************)
(* The calls as actions.                                                   *)
(***************************************************************************)
FilterIdle ==
  UNCHANGED <<input, todo, buf, buffered, pc, ret, cons_held, hist>>

StaticHandler ==
  /\ resp.phase = "handler"
  /\ \E env \in StaticEnvs :
       \E h \in {handler(r, conf, accept_encoding, file, env)} :
          /\ r' = h.req
          /\ resp' = [phase |-> "handled", rc |-> h.rc, log |-> h.log,
                      fail |-> h.fail, stage |-> h.stage, sent |-> h.sent,
                      out |-> h.out,
                      passed |-> h.passed, check |-> h.check,
                      created |-> h.created, v |-> resp.v]
          /\ ae_rc' = IF h.check.ae_rc # "NONE" THEN h.check.ae_rc ELSE ae_rc
          /\ ctx' = IF h.created THEN Ctx0 ELSE ctx
  /\ FilterIdle
  /\ UNCHANGED <<accept_encoding, conf, file>>

HeaderFilter ==
  /\ resp.phase = "header"
  /\ \E env \in FilterEnvs :
       \E h \in {ngx_http_brotli_header_filter(r, conf, accept_encoding,
                                                env)} :
          /\ r' = h.req
          /\ resp' = [resp EXCEPT !.phase = "filtered", !.rc = h.rc,
                                  !.fail = h.fail, !.sent = h.sent,
                                  !.check = h.check, !.created = h.created]
          /\ ae_rc' = IF h.check.ae_rc # "NONE" THEN h.check.ae_rc ELSE ae_rc
          /\ ctx' = IF h.created THEN Ctx0 ELSE ctx
  /\ FilterIdle
  /\ UNCHANGED <<accept_encoding, conf, file>>

RatioVariable ==
  /\ resp.phase = "variable"
  /\ \E env \in {Env0, [Env0 EXCEPT !.fail = "pnalloc"]} :
       \E g \in {ngx_http_brotli_ratio_variable(r, ctx, env)} :
          resp' = [resp EXCEPT !.phase = "evaluated", !.rc = g.rc,
                               !.fail = g.fail,
                               !.v = g.v]
  /\ FilterIdle
  /\ UNCHANGED <<accept_encoding, ae_rc, ctx, r, conf, file>>

ParseWbits ==
  /\ resp.phase = "directive"
  /\ \E p \in {ngx_http_brotli_parse_wbits(conf.filter.lg_win)} :
       /\ conf' = [conf EXCEPT !.filter.lg_win = p.parameter]
       /\ resp' = [resp EXCEPT !.phase = "parsed", !.rc = p.rc, !.log = p.log]
  /\ FilterIdle
  /\ UNCHANGED <<accept_encoding, ae_rc, ctx, r, file>>

(***************************************************************************)
(* Specifications.                                                         *)
(***************************************************************************)
FilterInit ==
  /\ accept_encoding = Header(kEncoding)
  /\ ae_rc = NGX_OK
  /\ r = SessionRequest
  /\ conf = [Conf0 EXCEPT !.filter.enable = TRUE]
  /\ file = File0
  /\ resp = Resp0
  /\ input \in InputSeqs
  /\ todo = input
  /\ ctx = Ctx0
  /\ buf = Buf0
  /\ buffered = FALSE
  /\ pc = "idle"
  /\ ret = "NONE"
  /\ cons_held = FALSE
  /\ hist = Hist0

Init == FilterInit

\* the steps of a run without codec, allocation or consumer failure
NextLive ==
  \/ PassThrough
  \/ Invoke
  \/ LoopDrainProgress
  \/ LoopDrainStall
  \/ LoopTake
  \/ LoopFinished
  \/ LoopFinish
  \/ LoopStarved
  \/ LoopSkipEmpty
  \/ LoopFeed

Next ==
  \/ NextLive
  \/ InvokeInitFail
  \/ InvokeAddCopyFail
  \/ LoopDrainFail
  \/ LoopTakeFail
  \/ LoopFinishFail
  \/ LoopFeedFail

Spec == Init /\ [][Next]_vars

\* the body filter together with close calls from an abort path
NextAbort == Next \/ AbortClose

SpecAbort == Init /\ [][NextAbort]_vars

\* The loop runs on, the producer passes every chunk, the filter is invoked
\* again after it returned, and the consumer drains in the end.
SpecLive ==
  /\ Init
  /\ [][NextLive]_vars
  /\ WF_vars(LoopTake) /\ WF_vars(LoopFinished) /\ WF_vars(LoopFinish)
  /\ WF_vars(LoopStarved) /\ WF_vars(LoopSkipEmpty) /\ WF_vars(LoopFeed)
  /\ WF_vars(LoopDrainProgress \/ LoopDrainStall)
  /\ SF_vars(LoopDrainProgress)
  /\ SF_vars(Invoke /\ todo # <<>> /\ todo' = <<>>)
  /\ WF_vars(Invoke)

\* the negotiation on its own
CheckAE ==
  /\ ae_rc = "NONE"
  /\ ae_rc' = check_accept_encoding(accept_encoding)
  /\ UNCHANGED <<accept_encoding, input, todo, ctx, buf, buffered, pc, ret,
                 cons_held, hist, r, conf, file, resp>>

InitAE ==
  /\ accept_encoding \in Headers
  /\ ae_rc = "NONE"
  /\ r = Request0
  /\ conf = Conf0
  /\ file = File0
  /\ resp = Resp0
  /\ input = <<>>
  /\ todo = <<>>
  /\ ctx = Ctx0
  /\ buf = Buf0
  /\ buffered = FALSE
  /\ pc = "idle"
  /\ ret = "NONE"
  /\ cons_held = FALSE
  /\ hist = Hist0

NextAE == CheckAE

SpecAE == InitAE /\ [][NextAE]_vars

\* a request in the content phase, or a response entering the header filters
RequestIdle ==
  /\ ae_rc = "NONE"
  /\ input = <<>>
  /\ todo = <<>>
  /\ ctx = Ctx0
  /\ buf = Buf0
  /\ buffered = FALSE
  /\ pc = "idle"
  /\ ret = "NONE"
  /\ cons_held = FALSE
  /\ hist = Hist0

InitStatic ==
  /\ accept_encoding \in RequestHeaders
  /\ r \in StaticRequests
  /\ conf \in StaticConfs
  /\ file \in Files
  /\ resp = [Resp0 EXCEPT !.phase = "handler"]
  /\ RequestIdle

InitDynamic ==
  /\ accept_encoding \in RequestHeaders
  /\ r \in DynamicResponses
  /\ conf \in FilterConfs
  /\ file = File0
  /\ resp = [Resp0 EXCEPT !.phase = "header"]
  /\ RequestIdle

InitRequest == InitStatic \/ InitDynamic

NextRequest == StaticHandler \/ HeaderFilter

\* the static handler and the header filter, one call per request
SpecRequest == InitRequest /\ [][NextRequest]_vars

InitRatio ==
  /\ accept_encoding = Header(kEncoding)
  /\ ae_rc = NGX_OK
  /\ input = <<>>
  /\ todo = <<>>
  /\ \/ r = SessionRequest /\ ctx \in RatioSessions
     \/ r = Request0 /\ ctx = Ctx0
  /\ buf = Buf0
  /\ buffered = FALSE
  /\ pc = "idle"
  /\ ret = "NONE"
  /\ cons_held = FALSE
  /\ hist = Hist0
  /\ conf = [Conf0 EXCEPT !.filter.enable = TRUE]
  /\ file = File0
  /\ resp = [Resp0 EXCEPT !.phase = "variable"]

NextRatio == RatioVariable

\* the ratio variable, read once
SpecRatio == InitRatio /\ [][NextRatio]_vars

InitConf ==
  /\ accept_encoding = NoHeader
  /\ r = Request0
  /\ conf \in WindowConfs
  /\ file = File0
  /\ resp = [Resp0 EXCEPT !.phase = "directive"]
  /\ RequestIdle

NextConf == ParseWbits

\* the brotli_window directive, parsed once
SpecConf == InitConf /\ [][NextConf]_vars

\* bodies of a producer that sends one more chunk after the chunk marked last
TrailingSeqs ==
  { Append(s, c) : s \in { t \in InputSeqs : Len(t) < MaxChunks },
                   c \in { d \in Chunks : ~d.last_buf /\ ~d.flush } }

InitTrailing ==
  /\ accept_encoding = Header(kEncoding)
  /\ ae_rc = NGX_OK
  /\ r = SessionRequest
  /\ conf = [Conf0 EXCEPT !.filter.enable = TRUE]
  /\ file = File0
  /\ resp = Resp0
  /\ input \in InputSeqs \cup TrailingSeqs
  /\ todo = input
  /\ ctx = Ctx0
  /\ buf = Buf0
  /\ buffered = FALSE
  /\ pc = "idle"
  /\ ret = "NONE"
  /\ cons_held = FALSE
  /\ hist = Hist0

NextTrailing == Next

\* the body filter when a chunk follows the chunk marked last
SpecTrailing == InitTrailing /\ [][NextTrailing]_vars

(***************************************************************************)
(* Properties of the streaming filter.                                     *)
(***************************************************************************)
Finished == ctx.closed /\ ctx.success

IsPrefix(s, t) == Len(s) <= Len(t) /\ s = SubSeq(t, 1, Len(s))

\* a step taken while output is staged or busy in which the consumer accepts
\* nothing and nothing fails
Stalled ==
  /\ MustDrain(ctx)
  /\ hist'.delivered = hist.delivered
  /\ hist'.fail = "none"

NoEncoderOpWhileOutput == hist'.ops # <<>> => ~(ctx.output_ready \/ ctx.output_busy)

\* C2 as stated: no encoder operation while output_ready or output_busy is
\* set, and while the consumer accepts nothing the encoder state, the input
\* queue and both counters stay unchanged.
C2_Original ==
  [][/\ NoEncoderOpWhileOutput
     /\ Stalled => /\ ctx'.encoder = ctx.encoder
                   /\ ctx'.in = ctx.in
                   /\ ctx'.bytes_in = ctx.bytes_in
                   /\ ctx'.bytes_out = ctx.bytes_out]_vars

\* C2 amended: no encoder operation while output_ready or output_busy is set,
\* and while the consumer accepts nothing the encoder state and both counters
\* stay unchanged and no queued chunk is removed or advanced: the queue only
\* grows, at its end, by the chunks an invocation passes in.
C2_Backpressure ==
  [][/\ NoEncoderOpWhileOutput
     /\ Stalled => /\ ctx'.encoder = ctx.encoder
                   /\ IsPrefix(ctx.in, ctx'.in)
                   /\ ctx'.bytes_in = ctx.bytes_in
                   /\ ctx'.bytes_out = ctx.bytes_out]_vars

C2_Witness ==
  /\ pc = "idle"
  /\ ret = NGX_AGAIN
  /\ ~ctx.closed
  /\ ctx.output_busy
  /\ ngx_buf_size(buf) > 0
  /\ hist.delivered = <<>>
  /\ Len(ctx.in) > 1

OutputInOrder ==
  /\ IsPrefix(hist.handed, hist.pulled)
  /\ Len(hist.pulled) = Len(hist.handed) + (IF ctx.output_ready THEN 1 ELSE 0)
  /\ IsPrefix(hist.delivered, Flatten(hist.handed))
  /\ Len(Flatten(hist.handed)) - Len(hist.delivered)
       = (IF ctx.output_busy THEN ngx_buf_size(buf) ELSE 0)
  /\ Finished => hist.delivered = Flatten(hist.pulled)

\* C3: every pulled extent is handed to the next filter once and in pull
\* order, the bytes the consumer receives are the bytes of the handed extents
\* in order, a pull never happens while a handed extent has undrained bytes,
\* and at FINISHED the delivered bytes are the concatenation of all pulled
\* extents.
C3_NoOutputLost ==
  /\ []OutputInOrder
  /\ [][hist'.pulled # hist.pulled => ~cons_held /\ ~MustDrain(ctx)]_vars

C3_Witness ==
  /\ Finished
  /\ Len(hist.pulled) > 1
  /\ Len(hist.delivered) = MaxOutTotal
  /\ hist.delivered = Flatten(hist.pulled)

\* C4: under SpecAbort BrotliEncoderDestroyInstance is called at most once,
\* the handle is NULL in every closed state, and a close call on a closed
\* session changes nothing.
C4_IdempotentClose ==
  /\ [](hist.destroyed <= 1 /\ (ctx.closed => ~ctx.encoder.alloc))
  /\ [][hist'.closes # hist.closes /\ ctx.closed
          => ctx' = ctx /\ buf' = buf /\ hist'.destroyed = hist.destroyed]_vars

C4_Witness ==
  /\ Finished
  /\ hist.closes = MaxCloseCalls
  /\ hist.closes > 1
  /\ hist.destroyed = 1

FatalFailures == {"consumer", "TakeOutput", "CompressStream"}

\* C5: a step in which a codec operation or the consumer fails closes the
\* session without success, releases the encoder and returns NGX_ERROR; once
\* the session is closed no encoder operation is performed and no extent is
\* handed over again.
C5_FailureFatal ==
  [][/\ hist'.fail \in FatalFailures
          => /\ ctx'.closed /\ ~ctx'.success
             /\ ctx.encoder.alloc /\ ~ctx'.encoder.alloc
             /\ hist'.destroyed = hist.destroyed + 1
             /\ pc' = "idle" /\ ret' = NGX_ERROR
     /\ ctx.closed => /\ ctx'.closed /\ ctx'.success = ctx.success
                      /\ hist'.ops = <<>>
                      /\ hist'.handed = hist.handed
                      /\ pc' = "idle"]_vars

C5_Witness ==
  /\ hist.fail = "CompressStream"
  /\ ctx.closed /\ ~ctx.success
  /\ ret = NGX_ERROR
  /\ ctx.bytes_in > 0
  /\ hist.destroyed = 1

\* C6: bytes_in is the sum of the input bytes the encoder consumed, bytes_out
\* the sum of the sizes of the pulled extents, neither ever decreases, and at
\* FINISHED bytes_in is the total length of the input chunks.
C6_Counters ==
  /\ [](/\ ctx.bytes_in = hist.fed
        /\ ctx.bytes_out = SumLen(hist.pulled)
        /\ Finished => ctx.bytes_in = TotalSize(input))
  /\ [][ctx'.bytes_in >= ctx.bytes_in /\ ctx'.bytes_out >= ctx.bytes_out]_vars

C6_Witness ==
  /\ Finished
  /\ ctx.bytes_in = TotalSize(input)
  /\ ctx.bytes_in = MaxChunks * MaxChunkSize
  /\ ctx.bytes_out = MaxOutTotal
  /\ Len(hist.pulled) > 1

(***************************************************************************)
(* Properties of the negotiation, under SpecAE.                            *)
(***************************************************************************)
Checked == ae_rc # "NONE"

\* a header that is the single element "br" followed by the tail t
BrWith(t) == Header(kEncoding \o t)

Str_q0dot == Str_q0 \o <<Ascii.DOT>>

AcceptExamples ==
  { BrWith(<<>>),
    BrWith(<<Ascii.SEMI, Ascii.q, Ascii.EQ, Ascii.D1>>),
    BrWith(Str_q0dot \o <<Ascii.D5>>),
    BrWith(Str_q0dot \o <<Ascii.D0, Ascii.D0, Ascii.D1>>) }

RejectExamples ==
  { BrWith(Str_q0),
    BrWith(Str_q0dot \o <<Ascii.D0>>),
    BrWith(Str_q0dot \o <<Ascii.D0, Ascii.D0>>),
    BrWith(Str_q0dot \o <<Ascii.D0, Ascii.D0, Ascii.D0>>) }

\* C7: "br", "br;q=1", "br;q=0.5", "br;q=0.001" are accepted, "br;q=0",
\* "br;q=0.0", "br;q=0.00", "br;q=0.000" are rejected, and "br;q=0." followed
\* by one to three digits is accepted iff one of the digits is greater than 0.
C7_QValueZero ==
  Checked =>
    /\ accept_encoding \in AcceptExamples => ae_rc = NGX_OK
    /\ accept_encoding \in RejectExamples => ae_rc = NGX_DECLINED
    /\ \A f \in Fractions :
         Len(f) <= 3 /\ accept_encoding = BrWith(Str_q0dot \o f)
           => (ae_rc = NGX_OK <=> \E k \in 1..Len(f) : f[k] > Ascii.D0)

\* the case-insensitive occurrences of "br" in v
Occurrences(v) ==
  { k \in 1..(Len(v) - 1) :
      ToLower(v[k]) = Ascii.b /\ ToLower(v[k + 1]) = Ascii.r }

\* the occurrence at k stands between token boundaries
Delimited(v, k) ==
  /\ k = 1 \/ v[k - 1] \in {Ascii.SP, Ascii.COMMA}
  /\ k + 2 > Len(v) \/ v[k + 2] \in {Ascii.SP, Ascii.COMMA, Ascii.SEMI}

\* the first occurrence at or after cursor, 0 if there is none
FirstOccurrence(v, cursor) ==
  LET later == { k \in Occurrences(v) : k >= cursor }
  IN IF later = {} THEN 0
     ELSE CHOOSE k \in later : \A m \in later : k <= m

PositionExamples ==
  { Header(kEncoding \o <<Ascii.COMMA, Ascii.SP>> \o Str_gzip),
    Header(Str_gzip \o <<Ascii.COMMA, Ascii.SP>> \o kEncoding),
    Header(Str_gzip \o Str_q0 \o <<Ascii.COMMA, Ascii.SP>> \o kEncoding),
    Header(<<Ascii.x, Ascii.MINUS, Ascii.b, Ascii.r, Ascii.COMMA, Ascii.SP>>
             \o kEncoding),
    Header(<<Ascii.b, Ascii.r, Ascii.x, Ascii.COMMA, Ascii.SP>> \o kEncoding) }

\* C8: a bare delimited br is accepted wherever it stands ("br, gzip",
\* "gzip, br", "gzip;q=0, br", "x-br, br", "brx, br"), and the search step
\* finds the first occurrence of "br" at or after the cursor, whatever
\* follows it.
C8_PositionIndependent ==
  Checked =>
    /\ accept_encoding \in PositionExamples => ae_rc = NGX_OK
    /\ accept_encoding.present =>
         \A cursor \in 1..(Len(accept_encoding.value) + 1) :
           SearchEncoding(accept_encoding.value, cursor)
             = FirstOccurrence(accept_encoding.value, cursor)

NoDelimitedOccurrence(v) == \A k \in Occurrences(v) : ~Delimited(v, k)

\* C9: the header is rejected when it is absent, shorter than the token, or
\* has no occurrence of "br" that stands between token boundaries.
C9_RejectsWithoutToken ==
  Checked /\ ( \/ ~accept_encoding.present
               \/ Len(accept_encoding.value) < kEncodingLen
               \/ NoDelimitedOccurrence(accept_encoding.value) )
    => ae_rc = NGX_DECLINED

C9_Witness ==
  /\ ae_rc = NGX_DECLINED
  /\ accept_encoding.present
  /\ Occurrences(accept_encoding.value) # {}
  /\ NoDelimitedOccurrence(accept_encoding.value)
  /\ accept_encoding.value[Len(accept_encoding.value)] = Ascii.r

\* tails after "br" that leave the shape ; q = <digit> before the digit
MalformedTails ==
  { <<Ascii.SEMI>>,
    <<Ascii.SEMI, Ascii.SP>>,
    <<Ascii.SEMI, Ascii.x>>,
    <<Ascii.SEMI, Ascii.q>>,
    <<Ascii.SEMI, Ascii.q, Ascii.SP>>,
    <<Ascii.SEMI, Ascii.q, Ascii.x>>,
    <<Ascii.SEMI, Ascii.q, Ascii.EQ>>,
    <<Ascii.SEMI, Ascii.q, Ascii.EQ, Ascii.SP>>,
    <<Ascii.SEMI, Ascii.q, Ascii.EQ, Ascii.x>> }

\* C10: after a delimited br followed by ';' a tail without q, without '=',
\* or with nothing or a character other than '0' after '=' is accepted, and
\* "q=0." without a digit is rejected.
C10_LenientQValue ==
  Checked =>
    /\ \A t \in MalformedTails : accept_encoding = BrWith(t) => ae_rc = NGX_OK
    /\ accept_encoding = BrWith(Str_q0dot) => ae_rc = NGX_DECLINED

\* C11: a single element br with q = 0.<digits> is accepted whenever one of
\* the digits is greater than 0, at whatever place of the fraction (also
\* beyond the third, as in "br;q=0.0001").
C11_AnyNonzeroDigit ==
  Checked =>
    \A f \in Fractions :
      /\ accept_encoding = BrWith(Str_q0dot \o f)
      /\ \E k \in 1..Len(f) : f[k] > Ascii.D0
      => ae_rc = NGX_OK

\* the first occurrence of "br" in v that stands between token boundaries,
\* 0 if there is none
FirstDelimited(v) ==
  LET delimited == { k \in Occurrences(v) : Delimited(v, k) }
  IN IF delimited = {} THEN 0
     ELSE CHOOSE k \in delimited : \A m \in delimited : k <= m

FirstDecidesExamples ==
  { Header(kEncoding \o Str_q0 \o <<Ascii.COMMA, Ascii.SP>> \o kEncoding),
    Header(kEncoding \o Str_q0 \o <<Ascii.COMMA, Ascii.SP>> \o kEncoding
             \o <<Ascii.SEMI, Ascii.q, Ascii.EQ, Ascii.D1>>) }

\* C12: the result is the verdict of the q-value scan at the first delimited
\* occurrence of "br", later occurrences are not tried: "br;q=0, br" and
\* "br;q=0, br;q=1" are rejected.
C12_FirstOccurrenceDecides ==
  Checked /\ accept_encoding.present =>
    /\ accept_encoding \in FirstDecidesExamples => ae_rc = NGX_DECLINED
    /\ FirstDelimited(accept_encoding.value) # 0
         => ae_rc = QValue(accept_encoding.value,
                           FirstDelimited(accept_encoding.value) + kEncodingLen)

(***************************************************************************)
(* Properties of the static handler and the header filter, under           *)
(* SpecRequest.                                                            *)
(***************************************************************************)
\* the step is a call of the static handler
StaticCall == resp.phase = "handler" /\ resp'.phase = "handled"

\* the step is a call of the header filter on a response of another handler
HeaderCall == resp.phase = "header" /\ resp'.phase = "filtered"

\* the result of the step is a result the handler can have for the header ae
OutcomeWith(ae) ==
  \E env \in StaticEnvs :
    LET h == handler(r, conf, ae, file, env)
    IN /\ r' = h.req
       /\ resp'.rc = h.rc /\ resp'.stage = h.stage /\ resp'.sent = h.sent
       /\ resp'.out = h.out /\ resp'.log = h.log

\* C13: for a main request the static handler goes on to the sibling lookup
\* iff the method is GET or HEAD, the URI does not end in '/', brotli_static
\* is not off, and the mode is always or check_accept_encoding accepts;
\* otherwise it returns NGX_DECLINED.  In always mode every outcome is also
\* an outcome for any other Accept-Encoding header, an absent one included.
C13_StaticEligibility ==
  [][StaticCall =>
       /\ r.main =>
            /\ resp'.stage # "eligibility"
                 <=> /\ r.method \in {"GET", "HEAD"}
                     /\ r.uri[Len(r.uri)] # Ascii.SLASH
                     /\ conf.cfg.enable # NGX_HTTP_BROTLI_STATIC_OFF
                     /\ \/ conf.cfg.enable = NGX_HTTP_BROTLI_STATIC_ALWAYS
                        \/ check_accept_encoding(accept_encoding) = NGX_OK
            /\ resp'.stage = "eligibility" => resp'.rc = NGX_DECLINED
       /\ conf.cfg.enable = NGX_HTTP_BROTLI_STATIC_ALWAYS
            => \A ae \in RequestHeaders : OutcomeWith(ae)]_vars

C13_Witness ==
  /\ resp.phase = "handled"
  /\ r.main
  /\ conf.cfg.enable = NGX_HTTP_BROTLI_STATIC_ALWAYS
  /\ accept_encoding = NoHeader
  /\ resp.passed
  /\ resp.rc = NGX_OK
  /\ resp.out # <<>>

\* the handler got as far as sending the header of the sibling
Served == resp.phase = "handled" /\ resp.stage = "send" /\ resp.sent

\* C14: when the request is eligible and the sibling is a regular file, the
\* header sent has status 200, the size of the sibling as content length, its
\* mtime as last-modified time, Content-Encoding "br" and the content type of
\* the request URI without the suffix; the body given to the next body filter
\* is the file range [0, size) of the sibling, and unless a call fails the
\* header is sent and, for a response with a body, the body follows.
C14_StaticResponse ==
  /\ Served =>
       /\ r.headers_out.status = "NGX_HTTP_OK"
       /\ r.headers_out.content_length_n = file.size
       /\ r.headers_out.last_modified_time = file.mtime
       /\ r.headers_out.content_encoding = Header(kEncoding)
       /\ r.headers_out.content_type = TypeOf(Exten(r.uri))
       /\ resp.out # <<>> =>
            /\ resp.passed
            /\ Len(resp.out) = 1
            /\ resp.out[1].file = r.uri \o kSuffix
            /\ resp.out[1].file_pos = 0
            /\ resp.out[1].file_last = file.size
  /\ resp.phase = "handled" /\ resp.stage = "send" /\ resp.fail = "none"
       => /\ file.rc = NGX_OK /\ file.is_file
          /\ resp.sent
          /\ r.header_only \/ resp.out # <<>>

C14_Witness ==
  /\ Served
  /\ resp.passed
  /\ resp.rc = NGX_OK
  /\ resp.out[1].file_last = MaxFileSize
  /\ r.headers_out.content_type = "text/css"
  /\ TypeOf(Exten(resp.out[1].file)) # "text/css"
  /\ r.headers_out.content_length_n = MaxFileSize

\* the handler called ngx_open_cached_file
Opened ==
  /\ resp.phase = "handled"
  /\ resp.stage = "lookup"
  /\ resp.fail \in {"none", "open_cached_file"}

NothingSent ==
  /\ r.headers_out = HeadersOut0
  /\ ~resp.sent
  /\ resp.out = <<>>

\* C15: when opening the sibling fails with ENOENT, ENOTDIR, ENAMETOOLONG,
\* EACCES, EMLINK or ELOOP the handler returns NGX_DECLINED; when the sibling
\* is a directory it returns NGX_DECLINED; when it is neither a directory nor
\* a regular file it returns NGX_HTTP_NOT_FOUND; in all these cases no
\* response header field is set and nothing is sent.
C15_StaticFailures ==
  Opened =>
    /\ file.rc # NGX_OK
         /\ file.err \in NotFoundErrors \cup SymlinkErrors \cup {"NGX_EACCES"}
         => resp.rc = NGX_DECLINED /\ NothingSent
    /\ file.rc = NGX_OK /\ file.is_dir
         => resp.rc = NGX_DECLINED /\ NothingSent
    /\ file.rc = NGX_OK /\ ~file.is_dir /\ ~file.is_file
         => resp.rc = "NGX_HTTP_NOT_FOUND" /\ NothingSent

C15_Witness ==
  /\ Opened
  /\ file.rc # NGX_OK
  /\ file.err = "NGX_ELOOP"
  /\ ~conf.have_openat
  /\ resp.rc = NGX_DECLINED
  /\ r.gzip_vary

\* C16: whenever the static handler returns NGX_DECLINED it has written no
\* log record of level error or critical.
C16_DeclinesNotLogged ==
  resp.phase = "handled" /\ resp.rc = NGX_DECLINED
    => \A k \in 1..Len(resp.log) :
         resp.log[k] \notin {"NGX_LOG_ERR", "NGX_LOG_CRIT"}

\* the static handler has set Content-Encoding "br" on the response
StaticEncoded ==
  /\ resp.phase = "handled"
  /\ resp.stage = "send"
  /\ r.headers_out.content_encoding.present
  /\ Len(r.headers_out.content_encoding.value) # 0

\* C17: whenever the static handler has set a non-empty Content-Encoding, the
\* header filter has created no session for the response, and the body
\* filter gives the sibling's buffers to the next body filter unchanged,
\* without an encoder and without any encoder operation.
C17_StaticExcludesTransform ==
  StaticEncoded =>
    /\ ~resp.created
    /\ ~r.has_ctx
    /\ ~ctx.encoder.alloc
    /\ hist.ops = <<>>
    /\ resp.out # <<>> => resp.passed
    /\ r.headers_out.content_length_n = file.size

C17_Witness ==
  /\ StaticEncoded
  /\ resp.sent
  /\ resp.passed
  /\ resp.out # <<>>
  /\ conf.filter.enable
  /\ r.main
  /\ check_accept_encoding(accept_encoding) = NGX_OK
  /\ r.headers_out.content_type \in conf.filter.types
  /\ r.headers_out.content_length_n >= conf.filter.min_length

\* the conditions under which the header filter is to transform the response
Compressible ==
  /\ conf.filter.enable
  /\ r.headers_out.status
       \in {"NGX_HTTP_OK", "NGX_HTTP_FORBIDDEN", "NGX_HTTP_NOT_FOUND"}
  /\ ~r.header_only
  /\ ~( /\ r.headers_out.content_encoding.present
        /\ r.headers_out.content_encoding.value # <<>> )
  /\ \/ r.headers_out.content_length_n = -1
     \/ r.headers_out.content_length_n >= conf.filter.min_length
  /\ r.headers_out.content_type \in conf.filter.types
  /\ r.main
  /\ check_accept_encoding(accept_encoding) = NGX_OK

\* the step leaves a session and the headers of a transformed response
Transformed ==
  /\ r'.has_ctx /\ resp'.created
  /\ r'.headers_out.content_encoding = Header(kEncoding)
  /\ r'.headers_out.content_length_n = -1
  /\ ~r'.headers_out.content_length
  /\ ~r'.headers_out.accept_ranges
  /\ r'.headers_out.etag # "strong"

HeadersUntouched ==
  /\ r'.headers_out.content_encoding = r.headers_out.content_encoding
  /\ r'.headers_out.content_length_n = r.headers_out.content_length_n
  /\ r'.headers_out.content_length = r.headers_out.content_length
  /\ r'.headers_out.accept_ranges = r.headers_out.accept_ranges
  /\ r'.headers_out.etag = r.headers_out.etag

Untouched == ~r'.has_ctx /\ ~resp'.created /\ HeadersUntouched

\* C18 as stated: the header filter creates a session, sets Content-Encoding
\* br, clears content length and accept-ranges and leaves no strong etag iff
\* the response is compressible; otherwise it creates no session and leaves
\* those headers unchanged.
C18_Original ==
  [][HeaderCall => IF Compressible THEN Transformed ELSE Untouched]_vars

\* C18 amended: as stated when both allocations succeed; when the session
\* cannot be allocated nothing changes and NGX_ERROR is returned; when the
\* header entry cannot be allocated the session exists, the headers are
\* unchanged and NGX_ERROR is returned.
C18_HeaderFilterDecision ==
  [][HeaderCall =>
       IF ~Compressible THEN Untouched
       ELSE IF resp'.fail = "ctx"
       THEN Untouched /\ resp'.rc = NGX_ERROR /\ ~resp'.sent
       ELSE IF resp'.fail = "list_push"
       THEN /\ r'.has_ctx /\ resp'.created
            /\ HeadersUntouched
            /\ resp'.rc = NGX_ERROR /\ ~resp'.sent
       ELSE Transformed]_vars

C18_Witness ==
  /\ resp.phase = "filtered"
  /\ resp.created
  /\ resp.sent
  /\ r.has_ctx
  /\ r.headers_out.status = "NGX_HTTP_FORBIDDEN"
  /\ r.headers_out.content_encoding = Header(kEncoding)
  /\ r.headers_out.content_length_n = -1
  /\ r.headers_out.etag = "weak"
  /\ r.gzip_tested

\* the step is a call that ran the eligibility check
CheckCall == (StaticCall \/ HeaderCall) /\ resp'.check.rc # "NONE"

\* C19: check_eligility and ngx_http_brotli_check_request return NGX_OK iff
\* the request is the main request and check_accept_encoding accepts; they
\* set gzip_tested and clear gzip_ok when they return NGX_OK and leave both
\* unchanged when they return NGX_DECLINED.
C19_NegotiationMarker ==
  [][CheckCall =>
       /\ resp'.check.rc \in {NGX_OK, NGX_DECLINED}
       /\ resp'.check.rc = NGX_OK
            <=> r.main /\ check_accept_encoding(accept_encoding) = NGX_OK
       /\ resp'.check.rc = NGX_OK => r'.gzip_tested /\ ~r'.gzip_ok
       /\ resp'.check.rc = NGX_DECLINED
            => /\ r'.gzip_tested = r.gzip_tested
               /\ r'.gzip_ok = r.gzip_ok]_vars

C19_Witness ==
  /\ resp.phase = "handled"
  /\ resp.check.rc = NGX_DECLINED
  /\ resp.check.ae_rc = NGX_DECLINED
  /\ resp.rc = NGX_DECLINED
  /\ r.main
  /\ ~r.gzip_tested
  /\ ~r.gzip_ok
  /\ r.gzip_vary

(***************************************************************************)
(* Properties of the ratio variable, under SpecRatio.                      *)
(***************************************************************************)
\* the variable was evaluated for a succeeded session with these counters
RatioOf(bytes_in, bytes_out) ==
  /\ resp.phase = "evaluated"
  /\ resp.rc = NGX_OK
  /\ r.has_ctx
  /\ ctx.success
  /\ ctx.bytes_in = bytes_in
  /\ ctx.bytes_out = bytes_out

Digit(n) == Ascii.D0 + n

NoRatioForZero ==
  resp.phase = "evaluated" /\ ctx.bytes_out = 0
    => resp.v.not_found /\ resp.v.data = <<>>

\* C20 as stated: 1000 / 333 gives "3.00", 1005 / 1000 gives "1.00", and
\* with bytes_out = 0 the variable is not found.
C20_Original ==
  /\ RatioOf(1000, 333)
       => ~resp.v.not_found
          /\ resp.v.data = <<Digit(3), Ascii.DOT, Digit(0), Digit(0)>>
  /\ RatioOf(1005, 1000)
       => ~resp.v.not_found
          /\ resp.v.data = <<Digit(1), Ascii.DOT, Digit(0), Digit(0)>>
  /\ NoRatioForZero

\* C20 amended: 1000 / 333 gives "3.00", 1005 / 1000 gives "1.01" (the third
\* decimal 5 rounds the second one up), and with bytes_out = 0 the variable
\* is not found.
C20_RatioExamples ==
  /\ RatioOf(1000, 333)
       => ~resp.v.not_found
          /\ resp.v.data = <<Digit(3), Ascii.DOT, Digit(0), Digit(0)>>
  /\ RatioOf(1005, 1000)
       => ~resp.v.not_found
          /\ resp.v.data = <<Digit(1), Ascii.DOT, Digit(0), Digit(1)>>
  /\ NoRatioForZero

C20_Witness ==
  /\ RatioOf(1005, 1000)
  /\ resp.v.valid
  /\ resp.v.data = <<Digit(1), Ascii.DOT, Digit(0), Digit(1)>>

\* the value of a string of decimal digits
RECURSIVE DigitsValue(_)
DigitsValue(s) ==
  IF s = <<>> THEN 0
  ELSE 10 * DigitsValue(SubSeq(s, 1, Len(s) - 1)) + (s[Len(s)] - Ascii.D0)

\* s is <integer>.<2-digit fraction>: digits, one dot, two digits, and the
\* integer has no leading zero unless it is 0
IsRatioString(s) ==
  /\ Len(s) >= 4
  /\ s[Len(s) - 2] = Ascii.DOT
  /\ \A k \in 1..Len(s) : k # Len(s) - 2 => IsDigit(s[k])
  /\ Len(s) > 4 => s[1] # Ascii.D0

RatioInt(s) == DigitsValue(SubSeq(s, 1, Len(s) - 3))

RatioFrac(s) == DigitsValue(SubSeq(s, Len(s) - 1, Len(s)))

NoRatio == ~r.has_ctx \/ ~ctx.success \/ ctx.bytes_out = 0

\* C21: the ratio variable is not found when there is no session, the
\* session did not succeed or bytes_out is 0; otherwise the string it reports
\* is <integer>.<2-digit fraction> with the fraction in 0..99 and
\* integer * 100 + fraction = floor((200 * bytes_in + bytes_out) /
\* (2 * bytes_out)), the ratio rounded half up to two decimals.
C21_RatioValue ==
  resp.phase = "evaluated" =>
    /\ NoRatio => resp.rc = NGX_OK /\ resp.v.not_found /\ resp.v.data = <<>>
    /\ ~NoRatio /\ resp.rc = NGX_OK =>
         /\ ~resp.v.not_found
         /\ IsRatioString(resp.v.data)
         /\ RatioFrac(resp.v.data) \in 0..99
         /\ RatioInt(resp.v.data) * 100 + RatioFrac(resp.v.data)
              = (200 * ctx.bytes_in + ctx.bytes_out) \div (2 * ctx.bytes_out)

\* 1000 / 1005 = 0.99502...: the fraction 99 rounds up to 100 and is carried
C21_Witness ==
  /\ RatioOf(1000, 1005)
  /\ ~resp.v.not_found
  /\ resp.v.data = <<Digit(1), Ascii.DOT, Digit(0), Digit(0)>>

(***************************************************************************)
(* Properties of the brotli_window directive, under SpecConf.              *)
(***************************************************************************)
WindowBits == BROTLI_MIN_WINDOW_BITS..BROTLI_MAX_WINDOW_BITS

\* the size is 2^b for a supported b
SupportedWindow(size) == \E b \in WindowBits : size = 2 ^ b

\* C22: ngx_http_brotli_parse_wbits accepts a size iff it is 2^b for some b
\* in 10..24 and then stores b in place of the size; for every other size it
\* returns an error and leaves the stored value unchanged.
C22_WindowBits ==
  [][resp'.phase = "parsed" =>
       /\ resp'.rc = NGX_CONF_OK <=> SupportedWindow(conf.filter.lg_win)
       /\ resp'.rc = NGX_CONF_OK
            => /\ conf'.filter.lg_win \in WindowBits
               /\ conf.filter.lg_win = 2 ^ conf'.filter.lg_win
       /\ resp'.rc # NGX_CONF_OK
            => conf'.filter.lg_win = conf.filter.lg_win]_vars

C22_Witness ==
  /\ resp.phase = "parsed"
  /\ resp.rc = NGX_CONF_OK
  /\ conf.filter.lg_win = BROTLI_MAX_WINDOW_BITS

C22_WitnessRejected ==
  /\ resp.phase = "parsed"
  /\ resp.rc # NGX_CONF_OK
  /\ conf.filter.lg_win = 2 ^ (BROTLI_MAX_WINDOW_BITS + 1)

(***************************************************************************)
(* Properties of the streaming filter: terminal states, stamping, the feed *)
(* step, suspension and initialization.                                    *)
(***************************************************************************)
\* the chunks the step took from the producer
PassedIn == SubSeq(todo, 1, Len(todo) - Len(todo'))

\* C23: under SpecAbort a closed session stays closed; every body filter
\* invocation on it forwards its input chain unchanged to the next filter,
\* performs no encoder operation, creates no encoder and changes no field of
\* the session, and a close call changes none either.
C23_TerminalAbsorbing ==
  [][ctx.closed =>
       /\ ctx' = ctx
       /\ hist'.ops = <<>>
       /\ hist'.created = hist.created
       /\ hist'.destroyed = hist.destroyed
       /\ pc' = "idle"
       /\ hist'.closes = hist.closes => hist'.forwarded = Forwarded(PassedIn)]_vars

C23_Witness ==
  /\ ctx.closed
  /\ ~ctx.success
  /\ ctx.initialized
  /\ hist.forwarded.called
  /\ hist.forwarded.in # <<>>
  /\ hist.closes > 1

\* the step pulls an extent from the encoder
Pulls == hist'.pulled # hist.pulled

\* C24: a pulled chunk is stamped last_buf iff end_of_input is latched and
\* the encoder is finished right after the pull, otherwise it is stamped
\* flush iff end_of_block is latched, and the pull clears end_of_block.  The
\* buffer keeps the stamps of the latest pull, so no chunk is pulled after a
\* chunk stamped final (at most one chunk is stamped final), and a chunk is
\* stamped final only after the chunk marked last was consumed whole: the
\* queue and the producer have nothing left.
C24_OutputStamping ==
  /\ [][Pulls =>
          /\ buf'.last_buf
               <=> ctx.end_of_input /\ BrotliEncoderIsFinished(ctx'.encoder)
          /\ buf'.flush <=> ~buf'.last_buf /\ ctx.end_of_block
          /\ ~ctx'.end_of_block
          /\ ~buf.last_buf]_vars
  /\ [](buf.last_buf =>
          /\ ctx.end_of_input
          /\ ctx.in = <<>>
          /\ todo = <<>>
          /\ input[Len(input)].last_buf
          /\ ctx.bytes_in = TotalSize(input))

C24_Witness ==
  /\ buf.last_buf
  /\ ~buf.flush
  /\ ctx.output_ready
  /\ ctx.end_of_input
  /\ ~ctx.end_of_block
  /\ Len(hist.pulled) > 1
  /\ \E k \in 1..Len(input) : input[k].flush /\ ~input[k].last_buf

C24_WitnessFlush ==
  /\ buf.flush
  /\ ~buf.last_buf
  /\ ctx.output_ready
  /\ ~ctx.end_of_block

\* chunk k of the body is marked flush and not last, it has left the queue,
\* and the encoder has consumed every byte up to its end
FlushConsumed(k) ==
  /\ input[k].flush
  /\ ~input[k].last_buf
  /\ Len(input) - Len(todo) - Len(ctx.in) >= k
  /\ hist.fed >= TotalSize(SubSeq(input, 1, k))

\* C25: end_of_block is latched only when a flush-marked chunk was consumed
\* whole and is cleared only by a pull that leaves the encoder without
\* pending output; a chunk is stamped flush only with end_of_block latched,
\* after a flush-marked chunk and all input before it were consumed, and
\* with it everything the encoder has emitted is pulled; while the chunk
\* stamped flush is staged or with the consumer the encoder holds no pending
\* output.
C25_FlushComplete ==
  /\ [][/\ Pulls /\ buf'.flush =>
             /\ ctx.end_of_block
             /\ \E k \in 1..Len(input) : FlushConsumed(k)
             /\ ~BrotliEncoderHasMoreOutput(ctx'.encoder)
             /\ SumLen(hist'.pulled) = ctx'.encoder.produced
        /\ ctx.end_of_block /\ ~ctx'.end_of_block =>
             /\ Pulls
             /\ ~BrotliEncoderHasMoreOutput(ctx'.encoder)
        /\ ~ctx.end_of_block /\ ctx'.end_of_block =>
             /\ Head(ctx.in).flush
             /\ ctx'.in = Tail(ctx.in)
             /\ hist'.fed - hist.fed = ngx_buf_size(Head(ctx.in))]_vars
  /\ [](buf.flush /\ MustDrain(ctx)
          => ~BrotliEncoderHasMoreOutput(ctx.encoder))

C25_Witness ==
  /\ buf.flush
  /\ ctx.output_busy
  /\ cons_held
  /\ ~ctx.end_of_block
  /\ hist.fed > 0
  /\ FlushConsumed(1)
  /\ ctx.in # <<>>

\* the step calls BrotliEncoderCompressStream
Feeds == hist'.feed # NoFeed

\* C26: under SpecTrailing, where a chunk may be queued behind the chunk
\* marked last, once end_of_input is latched it stays latched, no queued
\* chunk is removed or advanced and bytes_in stays; the only feed calls are
\* FINISH with no input, made while the encoder is not finished; and no feed
\* call at all is made while the encoder has pending output.
C26_FinalizationOrder ==
  [][/\ Feeds => ~BrotliEncoderHasMoreOutput(ctx.encoder)
     /\ ctx.end_of_input =>
          /\ ctx'.end_of_input
          /\ IsPrefix(ctx.in, ctx'.in)
          /\ ctx'.bytes_in = ctx.bytes_in
          /\ hist'.fed = hist.fed
          /\ Feeds => /\ hist'.feed = Feed("BROTLI_OPERATION_FINISH", 0)
                      /\ ~BrotliEncoderIsFinished(ctx.encoder)]_vars

C26_Witness ==
  /\ ctx.end_of_input
  /\ ~ctx.closed
  /\ hist.feed = Feed("BROTLI_OPERATION_FINISH", 0)
  /\ hist.fail = "none"
  /\ ctx.in # <<>>
  /\ BrotliEncoderHasMoreOutput(ctx.encoder)

\* the step submits the head of the queue and the call succeeds
FeedsHead == Feeds /\ ~ctx.end_of_input /\ hist'.fail = "none"

\* the queue and the chunks still with the producer are the rest of the
\* body in its order, and only the head of the queue has been advanced
FifoQueue ==
  ~ctx.closed =>
    /\ [k \in 1..Len(ctx.in) |-> [ctx.in[k] EXCEPT !.pos = 0]] \o todo
         = SubSeq(input, Len(input) - Len(ctx.in) - Len(todo) + 1, Len(input))
    /\ \A k \in 2..Len(ctx.in) : ctx.in[k].pos = 0

\* the feed step; with_last tells whether a flush marker on a chunk that is
\* also marked last is latched onto end_of_block
FeedStep(with_last) ==
  LET b == Head(ctx.in)
      consumed == hist'.fed - hist.fed
      latches_block == b.flush /\ (with_last \/ ~b.last_buf)
  IN /\ Feeds /\ ~ctx.end_of_input =>
          hist'.feed =
            Feed(CASE b.last_buf -> "BROTLI_OPERATION_FINISH"
                   [] ~b.last_buf /\ b.flush -> "BROTLI_OPERATION_FLUSH"
                   [] OTHER -> "BROTLI_OPERATION_PROCESS",
                 b.last - b.pos)
     /\ FeedsHead =>
          /\ consumed \in 0..(b.last - b.pos)
          /\ ctx'.bytes_in = ctx.bytes_in + consumed
          /\ consumed < b.last - b.pos =>
               /\ ctx'.in = <<[b EXCEPT !.pos = @ + consumed]>> \o Tail(ctx.in)
               /\ ctx'.end_of_input = ctx.end_of_input
               /\ ctx'.end_of_block = ctx.end_of_block
          /\ consumed = b.last - b.pos =>
               /\ ctx'.in = Tail(ctx.in)
               /\ ctx'.end_of_input = (ctx.end_of_input \/ b.last_buf)
               /\ ctx'.end_of_block = (ctx.end_of_block \/ latches_block)
     /\ ~FeedsHead =>
          /\ ctx'.end_of_input = ctx.end_of_input
          /\ ctx'.end_of_block => ctx.end_of_block

Suspends == pc = "loop" /\ pc' = "idle" /\ ~ctx'.closed

\* the handed chunk has bytes the consumer has not taken
Backpressure ==
  /\ ret = NGX_AGAIN
  /\ ctx.output_busy
  /\ ~ctx.output_ready
  /\ ngx_buf_size(buf) > 0
  /\ cons_held

\* nothing to do until the producer passes more input
Starvation ==
  /\ ret = NGX_OK
  /\ ctx.in = <<>>
  /\ ~ctx.end_of_input
  /\ ~ctx.output_ready
  /\ ~ctx.output_busy
  /\ ~BrotliEncoderHasMoreOutput(ctx.encoder)

\* C28: a return of the body filter that leaves the session active is
\* NGX_AGAIN with output_busy set and the handed chunk not drained, or NGX_OK
\* with an empty queue, end_of_input not latched, no staged or busy output
\* and no pending encoder output; between invocations an active session is
\* in one of these two conditions or has not been invoked yet, so NGX_AGAIN is
\* never returned while no output is busy.
C28_SuspensionCauses ==
  /\ [][Suspends => (Backpressure \/ Starvation)']_vars
  /\ [](pc = "idle" /\ ~ctx.closed
          => \/ ret = "NONE" /\ ctx = Ctx0
             \/ Backpressure
             \/ Starvation)

C28_Witness ==
  /\ pc = "idle"
  /\ ~ctx.closed
  /\ Backpressure
  /\ ctx.end_of_input
  /\ hist.delivered # <<>>

C28_WitnessStarved ==
  /\ pc = "idle"
  /\ ~ctx.closed
  /\ Starvation
  /\ ctx.bytes_out > 0
  /\ todo # <<>>

\* the session as the header filter left it: no body filter invocation yet
NotInvoked == pc = "idle" /\ ret = "NONE"

\* the step creates an encoder
Creates == hist'.created # hist.created

\* the step is an invocation whose initialization fails
InitFails == hist'.fail = "init"

\* C29: the header filter leaves the session without an encoder; an encoder
\* is created only by the first body filter invocation, and at most one is
\* ever created; an invocation whose initialization fails marks the session
\* initialized, closes it without success, destroys the encoder if it
\* created one and returns NGX_ERROR; once initialization was attempted it
\* is never attempted again.
C29_LazySingleInit ==
  /\ [](/\ hist.created <= 1
        /\ NotInvoked => ~ctx.initialized /\ ~ctx.encoder.alloc /\ hist.created = 0
        /\ hist.created = 1 => ctx.initialized
        /\ ctx.encoder.alloc => hist.created = 1 /\ hist.destroyed = 0)
  /\ [][/\ Creates => NotInvoked /\ ~ctx.initialized
        /\ InitFails =>
             /\ NotInvoked
             /\ ctx'.initialized
             /\ ctx'.closed /\ ~ctx'.success
             /\ ~ctx'.encoder.alloc
             /\ hist'.destroyed = hist'.created
             /\ pc' = "idle" /\ ret' = NGX_ERROR
        /\ ctx.initialized =>
             /\ ctx'.initialized
             /\ ~Creates
             /\ ~InitFails]_vars

C29_Witness ==
  /\ hist.fail = "init"
  /\ hist.created = 1
  /\ hist.destroyed = 1
  /\ ctx.initialized
  /\ ctx.closed
  /\ ~ctx.success
  /\ ret = NGX_ERROR
  /\ todo # <<>>

C29_WitnessNoRetry ==
  /\ ctx.closed
  /\ ~ctx.success
  /\ hist.created = 0
  /\ hist.forwarded.called
  /\ ctx.initialized

(***************************************************************************)
(* The vary marker, under SpecRequest.                                     *)
(***************************************************************************)
\* the static handler gets to the negotiation: on mode, after the method and
\* the trailing slash were looked at
StaticNegotiates ==
  /\ r.method \in {"GET", "HEAD"}
  /\ r.uri[Len(r.uri)] # Ascii.SLASH
  /\ conf.cfg.enable = NGX_HTTP_BROTLI_STATIC_ON

\* the header filter gets to the negotiation: every earlier check passes
FilterNegotiates ==
  /\ conf.filter.enable
  /\ r.headers_out.status
       \in {"NGX_HTTP_OK", "NGX_HTTP_FORBIDDEN", "NGX_HTTP_NOT_FOUND"}
  /\ ~r.header_only
  /\ ~( /\ r.headers_out.content_encoding.present
        /\ r.headers_out.content_encoding.value # <<>> )
  /\ \/ r.headers_out.content_length_n = -1
     \/ r.headers_out.content_length_n >= conf.filter.min_length
  /\ r.headers_out.content_type \in conf.filter.types

\* C30: a call of the static handler sets gzip_vary iff it gets to the
\* negotiation (on mode), a call of the header filter sets it iff the
\* enable, status, header-only, existing-encoding, min-length and MIME checks
\* pass; it is then set whether the eligibility check accepts or rejects and
\* whatever happens later in the call.  In always mode and on every earlier
\* bypass gzip_vary stays as it was, and no eligibility check is made with
\* gzip_vary unset.
C30_VaryMarker ==
  [][/\ StaticCall =>
          /\ r'.gzip_vary = (r.gzip_vary \/ StaticNegotiates)
          /\ resp'.check.rc # "NONE" => StaticNegotiates
     /\ HeaderCall =>
          /\ r'.gzip_vary = (r.gzip_vary \/ FilterNegotiates)
          /\ resp'.check.rc # "NONE" => FilterNegotiates
     /\ CheckCall => r'.gzip_vary]_vars

C30_Witness ==
  /\ resp.phase = "filtered"
  /\ r.gzip_vary
  /\ resp.check.rc = NGX_DECLINED
  /\ resp.check.ae_rc = NGX_DECLINED
  /\ ~resp.created
  /\ r.main
  /\ accept_encoding = Header(Str_gzip)

C30_WitnessAlways ==
  /\ resp.phase = "handled"
  /\ conf.cfg.enable = NGX_HTTP_BROTLI_STATIC_ALWAYS
  /\ resp.sent
  /\ ~r.gzip_vary
  /\ conf.filter.enable

\* the loop is at the feed step and the head of the queue has no bytes
ZeroHead == HasInput /\ ngx_buf_size(Head(ctx.in)) = 0

\* the step removes the head of the queue and touches no other chunk
Dequeues == ctx'.in = Tail(ctx.in)

\* C31: at the feed step, a head chunk of size 0 carrying neither marker is
\* dequeued without an encoder call, the flags, the counters and the encoder
\* stay as they were and the loop goes on; a head chunk of size 0 marked last
\* is submitted with FINISH and no input, and one marked flush and not last
\* with FLUSH and no input; when the call succeeds the chunk is dequeued as
\* fully consumed, bytes_in stays, and end_of_input (for last) or
\* end_of_block (for flush) is latched.
C31_ZeroLengthChunks ==
  [][ZeroHead =>
       LET b == Head(ctx.in)
       IN /\ ~b.last_buf /\ ~b.flush =>
               /\ ~Feeds
               /\ hist'.fail = "none"
               /\ Dequeues
               /\ ctx' = [ctx EXCEPT !.in = Tail(@)]
               /\ pc' = "loop"
          /\ b.last_buf =>
               /\ hist'.feed = Feed("BROTLI_OPERATION_FINISH", 0)
               /\ hist'.fail = "none" =>
                    /\ Dequeues
                    /\ ctx'.end_of_input
                    /\ ctx'.end_of_block = ctx.end_of_block
          /\ ~b.last_buf /\ b.flush =>
               /\ hist'.feed = Feed("BROTLI_OPERATION_FLUSH", 0)
               /\ hist'.fail = "none" =>
                    /\ Dequeues
                    /\ ctx'.end_of_block
                    /\ ~ctx'.end_of_input
          /\ hist'.fail = "none" =>
               /\ ctx'.bytes_in = ctx.bytes_in
               /\ hist'.fed = hist.fed]_vars

\* a body of an unmarked empty chunk and an empty last chunk was submitted
C31_Witness ==
  /\ ~ctx.closed
  /\ Len(input) > 1
  /\ \A k \in 1..Len(input) : ngx_buf_size(input[k]) = 0
  /\ ~input[1].flush
  /\ todo = <<>>
  /\ ctx.in = <<>>
  /\ hist.feed = Feed("BROTLI_OPERATION_FINISH", 0)
  /\ hist.fail = "none"
  /\ ctx.end_of_input
  /\ ctx.bytes_in = 0

\* an empty flush chunk was submitted and latched end_of_block
C31_WitnessFlush ==
  /\ ~ctx.closed
  /\ ngx_buf_size(input[1]) = 0
  /\ hist.feed = Feed("BROTLI_OPERATION_FLUSH", 0)
  /\ hist.fail = "none"
  /\ ctx.end_of_block
  /\ ~ctx.end_of_input
  /\ ctx.bytes_in = 0

\* the body filter is not running: it has returned or was never invoked
FilterReturned == pc = "idle"

\* ctx->out_buf points to a buffer with at least one byte not drained
HasUndrainedByte == ctx.out_buf # NULL /\ ngx_buf_size(buf) > 0

\* output_ready and output_busy are never both set, and output_ready is not
\* set when the body filter has returned
ReadyBusyExclusive ==
  /\ ~(ctx.output_ready /\ ctx.output_busy)
  /\ FilterReturned => ~ctx.output_ready

\* C32 as stated: output_ready and output_busy are never both set,
\* output_ready is never set when the body filter returns, and whenever the
\* filter returns with output_busy set, out_buf has an undrained byte.
C32_Original ==
  /\ ReadyBusyExclusive
  /\ FilterReturned /\ ctx.output_busy => HasUndrainedByte

\* C32 amended: as stated, but the undrained byte is promised only while the
\* session is not closed; a return that closed the session with a chunk
\* still busy leaves output_busy set and out_buf NULL.
C32_OutputFlags ==
  /\ ReadyBusyExclusive
  /\ FilterReturned /\ ctx.output_busy /\ ~ctx.closed => HasUndrainedByte

\* the filter returned with a handed chunk the consumer has partly drained
C32_Witness ==
  /\ FilterReturned
  /\ ~ctx.closed
  /\ ctx.output_busy
  /\ ret = NGX_AGAIN
  /\ buf.pos > buf.start
  /\ buf.pos < buf.last

\* the consumer failed with the handed chunk undrained: the session is
\* closed, output_busy is still set and out_buf is NULL
C32_WitnessClosed ==
  /\ FilterReturned
  /\ ctx.closed
  /\ ctx.output_busy
  /\ ctx.out_buf = NULL
  /\ hist.fail = "consumer"
  /\ ret = NGX_ERROR

\* C33: whenever the body filter has returned with the session not closed
\* and a non-empty input queue, the NGX_HTTP_BROTLI_BUFFERED bit of the
\* connection is set; and when the filter has returned after the encoder
\* finished (success is marked), the bit is clear.
C33_PendingSignal ==
  /\ FilterReturned /\ ~ctx.closed /\ ctx.in # <<>> => buffered
  /\ FilterReturned /\ ctx.success => ~buffered

\* a flush chunk was stamped, which cleared the bit, and the filter returned
\* NGX_AGAIN with a chunk still queued and the bit set again
C33_Witness ==
  /\ FilterReturned
  /\ ~ctx.closed
  /\ ret = NGX_AGAIN
  /\ ctx.in # <<>>
  /\ ctx.output_busy
  /\ buf.flush
  /\ buffered

\* the filter returned after the encoder finished with the bit clear
C33_WitnessFinished ==
  /\ FilterReturned
  /\ ctx.success
  /\ ctx.closed
  /\ hist.finishes = 1
  /\ ret = NGX_OK
  /\ hist.fed > 0
  /\ ~buffered

=============================================================================
